---- MODULE Spec2Model ----
(***************************************************************************)
(* The agent tool-execution loop of micro-cc (claude_loop_.py) together    *)
(* with its consumer (start_.py), the tool executor (execute_tool.py),     *)
(* the model-call collaborator (models/anthropic.py) and the transcript    *)
(* store (utils/msg_store_.py).                                            *)
(*                                                                         *)
(* claude_loop is an async generator: every `yield` and every `await` is a *)
(* point where control leaves the loop.  pc names the point at which the   *)
(* generator currently stands.                                             *)
(*                                                                         *)
(* Spec is the loop with its consumer.  SpecPlan is the plan tracker       *)
(* (tools/plan_tools_.py over cache/redis_cache.py) as the loop reaches    *)
(* it: a tool_use block, execute_tool_call, the fold of the result.        *)
(***************************************************************************)
EXTENDS Integers, Sequences, FiniteSets, TLC

\* ----------------------------------------------------------------- bounds
MaxCalls == 2        \* model calls over the whole run
MaxReqs == 2         \* tool_use blocks the model emits over the whole run
MaxSteps == 2        \* steps held by the plan store, over all projects
MaxTicks == 2        \* times the clock of the state store is seen to move
MaxWrites == 2       \* writes and clears made on the state store
MaxMsgs == 2         \* messages of a history handed to store_msgs
MaxDrains == 2       \* calls of drain
MaxRecords == 3      \* events the observer hands to the handler

\* -------------------------------------------------------------- vocabulary
DANGEROUS_TOOLS == {"bash_", "edit_", "write_"}

\* default_tools: the names registered in the `tools` dict at loop start
default_tools == {"bash_", "search_tools"}

\* names a response may use: a privileged tool, a benign one (the discovery
\* tool) and a tool of the catalog, registered only once discovered
ToolNames == {"bash_", "search_tools", "web_search"}

\* what a handler does when invoked: returns text, returns a discovery
\* mapping (search_tools only), or raises (bad arguments, network, ...)
HandlerOutcomes(name) ==
  IF name = "search_tools" THEN {"text", "dict", "raise"}
  ELSE {"text", "raise"}

\* kinds of failure the transport can end its last retry with
TransportKinds == {"APITimeoutError", "APIConnectionError"}

Pending == "pending"

\* the classification of a response (claude_loop_.py 173-181): kind is
\* "tool_use" when it has tool_use blocks, "final" when it has text and none,
\* "empty" when it has neither, "failed" when model_call returned None
Response(k, us) == [kind |-> k, uses |-> us]

NoResponse == Response("none", <<>>)

\* ---------------------------------------------------------------- messages
\* A content block.  Unused fields are "" / 0.
Block(t, i, n, b) == [type |-> t, id |-> i, name |-> n, body |-> b]

\* A message.  plain = TRUE: content is a string (held as one text block);
\* plain = FALSE: content is a list of blocks.
Msg(r, p, bs) == [role |-> r, plain |-> p, blocks |-> bs]

StrMsg(r, s) == Msg(r, TRUE, <<Block("text", 0, "", s)>>)

SystemPrompt == StrMsg("system", "system prompt")

UserQuery == StrMsg("user", "query")

\* An event of the stream.  req is the tool_use block the event was emitted
\* for (its `input` identifies it), cell the decision cell it carries.
Ev(t, n, r, c, o) == [type |-> t, name |-> n, req |-> r, cell |-> c, out |-> o]

Plain(t) == Ev(t, "", 0, 0, "")

\* ------------------------------------------------------- transcript store
IsNotThinking(b) == b.type # "thinking"

\* variant: thinking blocks are written like any other block
normalize_message_whole(m) ==
  [role |-> m.role, ts |-> "now", plain |-> m.plain, blocks |-> m.blocks]

normalize_message(m) ==
  IF m.plain
    THEN [role |-> m.role, ts |-> "now", plain |-> TRUE, blocks |-> m.blocks]
    ELSE LET kept == SelectSeq(m.blocks, IsNotThinking)
         IN  IF Len(kept) = 1 /\ kept[1].type = "text"
               THEN [role |-> m.role, ts |-> "now", plain |-> TRUE, blocks |-> kept]
               ELSE [role |-> m.role, ts |-> "now", plain |-> FALSE, blocks |-> kept]

reconstruct_message(n) == Msg(n.role, n.plain, n.blocks)

\* A line of messages.jsonl.  json: "object" a JSON object with a role,
\* "no_role" a JSON object without role, "not_object" JSON that is no
\* object (a number, a list, null), "not_json" text that does not parse.
\* obj: the object of an "object" line.
Line(j, n) == [json |-> j, obj |-> n]

\* f.write(json.dumps(normalized) + "\n")
dumps(n) == Line("object", n)

\* the lines that store_msgs never writes
Malformed(j) == Line(j, [role |-> "", ts |-> "", plain |-> TRUE, blocks |-> <<>>])

MalformedKinds == {"no_role", "not_object", "not_json"}

\* the lines store_msgs writes for a history (the file is rewritten whole)
store_msgs(h) == [i \in 1..Len(h) |-> dumps(normalize_message(h[i]))]

\* what load_msgs gives: state "ok" and the messages, or state "raised"
\* when it raises; state "none": load_msgs was not called
Loaded(st, ms) == [state |-> st, msgs |-> ms]

IsObject(line) == line.json = "object"

Raises(line) == line.json \in {"no_role", "not_object"}

\* json.loads fails on a "not_json" line and the line is skipped;
\* normalized["role"] raises KeyError on an object without role and
\* TypeError on JSON that is no object, and only JSONDecodeError is caught
load_msgs(f) ==
  IF \E i \in 1..Len(f) : Raises(f[i]) THEN Loaded("raised", <<>>)
  ELSE LET lines == SelectSeq(f, IsObject)
       IN  Loaded("ok", [i \in 1..Len(lines) |-> reconstruct_message(lines[i].obj)])

\* the contents of the messages handed to store_msgs: a string, and lists
\* of thinking, text, tool_use and tool_result blocks
Shapes ==
  { StrMsg("user", "query"),
    Msg("assistant", FALSE, <<Block("thinking", 0, "", "thought")>>),
    Msg("assistant", FALSE,
        <<Block("thinking", 0, "", "thought"), Block("text", 0, "", "answer")>>),
    Msg("assistant", FALSE,
        <<Block("thinking", 0, "", "thought"), Block("text", 0, "", "answer"),
          Block("tool_use", 1, "bash_", "")>>),
    Msg("user", FALSE, <<Block("tool_result", 1, "", "ok")>>) }

Histories == UNION {[1..n -> Shapes] : n \in 0..MaxMsgs}

NotLoaded == Loaded("none", <<>>)

\* --------------------------------------------------------- tool execution
\* variant: no try/except around the handler, its exception escapes
execute_tool_call_uncaught(name, tls, outcome) ==
  IF name \notin tls THEN "Unknown tool" ELSE outcome

\* execute_tool_call: the result of one invocation.  outcome is what the
\* handler does; a raise is caught and turned into an error string.
execute_tool_call(name, tls, outcome) ==
  IF name \notin tls THEN "Unknown tool"
  ELSE IF outcome = "raise" THEN "Tool error"
  ELSE outcome

\* variant: results collected as the tasks complete
GatherByCompletion(ret, ord) == [k \in 1..Len(ord) |-> ret[ord[k]]]

\* asyncio.gather: the list of results, in the order the tasks were passed,
\* whatever the order ord in which they completed
Gather(ret, ord) == [i \in 1..Len(ret) |-> ret[i]]

\* variant: a request runs as soon as the approval loop has passed it
CanRunEager(p, a, i) == p = "exec" \/ (p \in {"approvals", "await_approval"} /\ i < a)

\* the tasks are created and awaited only after the approval loop has ended
CanRun(p, a, i) == p = "exec"

\* content of a tool_result block: str(result) for a mapping, else result or ""
Content(result) ==
  IF result = "dict" THEN "str(dict)"
  ELSE result

\* output of a tool_result event: str(result)[:500]
Display(result) ==
  IF result = "dict" THEN "str(dict)"
  ELSE result

\* variant: a failed invocation gets no tool_result block
AppendResultSkipsErrors(bs, tb, result) ==
  IF result = "Tool error" THEN bs
  ELSE Append(bs, Block("tool_result", tb.id, "", Content(result)))

\* one iteration of the folding loop adds one tool_result block
AppendResult(bs, tb, result) ==
  Append(bs, Block("tool_result", tb.id, "", Content(result)))

\* the assistant message of a batch: thinking block first, then one tool_use
\* block per locally dispatched request
AssistantMsg(th, loc) ==
  Msg("assistant", FALSE,
      (IF th THEN <<Block("thinking", 0, "", "thoughts")>> ELSE <<>>)
      \o [i \in 1..Len(loc) |-> Block("tool_use", loc[i].id, loc[i].name, "")])

\* ------------------------------------------------------------ approval gate
\* variant: one cell made before the loop and shared by all requests
ReusedCell(cs) == IF Len(cs) = 0 THEN <<"unset">> ELSE cs

\* approval = {"approved": None}: a new cell, unset
FreshCell(cs) == Append(cs, "unset")

\* variant: a cell is refused only when it was set to False
ApprovedUnlessDenied(c) == c # "denied"

\* `not approval["approved"]` is false only for a cell set to True
Approved(c) == c = "approved"

\* consumeloop sets the cell carried by the event to True or False; a
\* consumer that resumes the generator without answering leaves it as it is
Decide(cs, c, d) == IF d = "unset" THEN cs ELSE [cs EXCEPT ![c] = d]

\* ------------------------------------------------------------- plan tracker
\* the project_dir of the running loop, and the keys under which the plan
\* store holds a plan
LoopProject == "project_dir"

ProjectKeys == {LoopProject}

Statuses == {"not_started", "in_progress", "completed", "blocked"}

\* an argument left out of a call (its default is None); an optional integer
\* is <<>> when left out and <<i>> when given
None == "None"

\* descriptions of the steps a make_plan content lists, first to last
Descriptions == <<"step 1", "step 2", "step 3", "step 4">>

AddedStep == "added step"

\* get_plan gives None when the key holds nothing
NoPlan == <<>>

\* the plan is stored as its JSON text
json_dumps(plan) == <<plan>>

json_loads(text) == text[1]

get_plan(store, key) == store[key]

\* variant: a key that holds a plan keeps it
set_plan_keeps_existing(store, key, text) ==
  IF store[key] = NoPlan THEN [store EXCEPT ![key] = text] ELSE store

set_plan(store, key, text) == [store EXCEPT ![key] = text]

\* the contents make_plan may be handed: the empty string, text that is no
\* JSON, JSON that is no container (a number, null, true), an object without
\* `steps`, an object whose steps are an empty list, and an object with
\* title and n steps
Content_(k, n) == [kind |-> k, steps |-> SubSeq(Descriptions, 1, n)]

Contents ==
  {Content_(k, 0) : k \in {"empty", "malformed", "not_container", "no_fields", "no_steps"}}
  \cup {Content_("plan", n) : n \in 1..MaxSteps}

\* what a plan tool returns: its text and the store as it leaves it
Ret(t, s) == [text |-> t, store |-> s]

\* structured_plan of make_plan (title, context and created_at left out)
structured_plan(steps) ==
  [ steps |-> steps,
    step_statuses |-> [i \in 1..Len(steps) |-> "not_started"],
    step_findings |-> [i \in 1..Len(steps) |-> ""],
    current_step_index |-> 0 ]

make_plan(store, content, project_path) ==
  IF content.kind = "empty" THEN Ret("Error: Content cannot be empty", store)
  ELSE IF content.kind = "malformed" THEN Ret("Error: Invalid JSON format", store)
  \* `"title" not in plan_data` on a number, null or true: TypeError, which
  \* the `except json.JSONDecodeError` does not catch
  ELSE IF content.kind = "not_container" THEN Ret("raise", store)
  ELSE IF content.kind = "no_fields"
    THEN Ret("Error: Plan must have 'title' and 'steps' fields", store)
  ELSE IF Len(content.steps) = 0
    THEN Ret("Error: Steps must be a non-empty list", store)
  ELSE LET prev_plan == get_plan(store, project_path)
           new_content == json_dumps(structured_plan(content.steps))
       IN  Ret(IF prev_plan # NoPlan
                 THEN "Structured plan created successfully. Previous plan replaced"
                 ELSE "Structured plan created successfully",
               set_plan(store, project_path, new_content))

\* variant: completing any step moves the position past it
AdvanceAny(plan, step_index, status) ==
  IF status = "completed"
    THEN IF step_index + 1 < Len(plan.steps) THEN step_index + 1 ELSE Len(plan.steps)
    ELSE plan.current_step_index

\* the auto-advance of update_step: completing the step at the current
\* position moves the position to the next index, or to len(steps)
Advance(plan, step_index, status) ==
  IF status = "completed" /\ step_index = plan.current_step_index
    THEN IF step_index + 1 < Len(plan.steps) THEN step_index + 1 ELSE Len(plan.steps)
    ELSE plan.current_step_index

\* the status transitions of the plan-tracker state machine
Allowed(was, status) ==
  \/ was = "not_started" /\ status = "in_progress"
  \/ was = "in_progress" /\ status = "completed"
  \/ was # "completed" /\ status = "blocked"

\* variant: a status is assigned only along an allowed transition
assign_status_constrained(was, status) ==
  IF Allowed(was, status) THEN status ELSE was

\* plan["step_statuses"][step_index] = status
assign_status(was, status) == status

\* variant: the findings given are added to the findings the step has
assign_findings_merged(was, findings) == was \o findings

\* plan["step_findings"][step_index] = findings
assign_findings(was, findings) == findings

\* step_index is 0-based; the lists of the model are 1-based
update_step(store, step_index, status, findings, project_path) ==
  LET plan_data == get_plan(store, project_path)
  IN  IF plan_data = NoPlan THEN Ret("Error: No plan exists", store)
      ELSE
        LET plan == json_loads(plan_data)
            idx == IF step_index = <<>> THEN plan.current_step_index ELSE step_index[1]
        IN  IF idx < 0 \/ idx >= Len(plan.steps) THEN Ret("Error: Invalid step index", store)
            ELSE IF status # None /\ status \notin Statuses
              THEN Ret("Error: Invalid status", store)
            ELSE
              LET p1 == IF status # None
                          THEN [plan EXCEPT !.step_statuses[idx + 1] = assign_status(@, status),
                                            !.current_step_index = Advance(plan, idx, status)]
                          ELSE plan
                  p2 == IF findings # None /\ findings # ""
                          THEN [p1 EXCEPT !.step_findings[idx + 1] = assign_findings(@, findings)]
                          ELSE p1
              IN  Ret("Step updated successfully", set_plan(store, project_path, json_dumps(p2)))

\* variant: the new step gets no findings entry
appended_no_findings(plan, step_description) ==
  [plan EXCEPT !.steps = Append(@, step_description),
               !.step_statuses = Append(@, "not_started")]

\* variant: the new step is put in front of the steps
appended_in_front(plan, step_description) ==
  [plan EXCEPT !.steps = <<step_description>> \o @,
               !.step_statuses = <<"not_started">> \o @,
               !.step_findings = <<"">> \o @]

\* the three appends of add_step
appended(plan, step_description) ==
  [plan EXCEPT !.steps = Append(@, step_description),
               !.step_statuses = Append(@, "not_started"),
               !.step_findings = Append(@, "")]

\* show_full_plan calls get_plan(user_id, conversation_id); get_plan takes
\* one key, so the call raises TypeError before anything is read
show_full_plan(store, user_id, conversation_id) == "raise"

add_step(store, step_description, project_path) ==
  LET plan_data == get_plan(store, project_path)
  IN  IF plan_data = NoPlan THEN Ret("Error: No plan exists", store)
      ELSE Ret("New step added",
               set_plan(store, project_path,
                        json_dumps(appended(json_loads(plan_data), step_description))))

\* ---------------------------------------------------- dispatch of a request
\* the parameters of the registered handlers that take the project
Signature(name) ==
  CASE name = "bash_" -> {"command", "project_dir", "path", "timeout"}
    [] name = "make_plan" -> {"content", "project_path"}
    [] name = "update_step" -> {"step_index", "status", "findings", "project_path"}
    [] name = "add_step" -> {"step_description", "project_path"}
    [] name = "show_full_plan" -> {"user_id", "conversation_id"}

\* the parameters without a default
Required(name) ==
  CASE name = "bash_" -> {"command", "project_dir"}
    [] name = "make_plan" -> {"content", "project_path"}
    [] name = "update_step" -> {"project_path"}
    [] name = "add_step" -> {"step_description", "project_path"}
    [] name = "show_full_plan" -> {"user_id", "conversation_id"}

\* the parameter through which the handler learns the project
ProjectParam(name) ==
  CASE name = "bash_" -> "project_dir"
    [] name \in {"make_plan", "update_step", "add_step"} -> "project_path"
    [] name = "show_full_plan" -> "user_id"

INTERNAL_PARAMS == {"project_dir"}

\* function_to_schema: the properties of the schema offered to the model
SchemaProperties(name) == Signature(name) \ INTERNAL_PARAMS

\* execute_tool_call adds project_dir when the handler has that parameter
Inject(name, args) ==
  IF "project_dir" \in Signature(name)
    THEN [k \in (DOMAIN args) \cup {"project_dir"} |->
            IF k = "project_dir" THEN LoopProject ELSE args[k]]
    ELSE args

\* tool(**args) raises TypeError when a required parameter is missing or an
\* argument is no parameter of the handler
Binds(name, args) ==
  /\ Required(name) \subseteq DOMAIN args
  /\ DOMAIN args \subseteq Signature(name)

PlanTools == {"make_plan", "update_step", "add_step", "show_full_plan"}

\* the paths a response may give for project_path; Missing: it gives none
Missing == "missing"

ModelPaths == ProjectKeys \cup {Missing}

WithPath(args, p) ==
  IF p = Missing THEN args
  ELSE [k \in (DOMAIN args) \cup {"project_path"} |->
          IF k = "project_path" THEN p ELSE args[k]]

\* One request for a tool that takes the project, from the tool_use block
\* to its result.  phase: "requested" once the response named it, "returned"
\* once execute_tool_call returned, "idle" once the result was folded.
\* path, content, index, status, findings: the arguments the response gave
\* (path Missing, index <<>>, the others None when it gave none).
\* project: what the handler received as the project.  result: what
\* execute_tool_call returned.  was_status, was_index: the status of the
\* addressed step and the position of the plan before the call.
Op(ph, n, p, c, si, st, fd, prj, res, ws, wi) ==
  [phase |-> ph, name |-> n, path |-> p, content |-> c, index |-> si,
   status |-> st, findings |-> fd, project |-> prj, result |-> res,
   was_status |-> ws, was_index |-> wi]

NoContent == [kind |-> "empty", steps |-> <<>>]

NoOp == Op("idle", "", Missing, NoContent, <<>>, None, None, Missing, "", "", <<>>)

\* a request as the response gives it
Request(n, p, c, si, st, fd) ==
  Op("requested", n, p, c, si, st, fd, Missing, "", "", <<>>)

\* number of steps of the plan under key
StepCount(store, key) ==
  IF store[key] = NoPlan THEN 0 ELSE Len(json_loads(store[key]).steps)

\* -------------------------------------------------------------- state store
\* RedisStateManager: one dict shared by all sessions of the process, every
\* entry a value with the time at which it expires.
TTL == 3600

app_name == "micro_cc"

\* the projects whose sessions run side by side: the session of Acting
\* calls every method of the store, the session of Reading reads the
\* records its project holds
Acting == "/proj/a"

Reading == "/proj/b"

CacheProjects == {Acting, Reading}

KeyTypes == {"plan", "discovered_tools", "discovered_mcps"}

\* variant: the key leaves the project out
make_key_of_type(key_type, part) == app_name \o ":" \o key_type \o ":"

\* _make_key with one part
make_key(key_type, part) == app_name \o ":" \o key_type \o ":" \o part

EmptyDict == [k \in {} |-> 0]

\* a dict without key
Without(d, key) == [k \in (DOMAIN d) \ {key} |-> d[k]]

\* a dict with d[key] = e
With(d, key, e) == [k \in (DOMAIN d) \cup {key} |-> IF k = key THEN e ELSE d[k]]

set_with_ttl(d, key, value, ttl, t) ==
  With(d, key, [value |-> value, expiry |-> t + ttl])

Expired(e, t) == t > e.expiry

\* what _get returns (<<>> for None, <<v>> for a value v) and the dict as
\* it leaves it
Got(v, d) == [value |-> v, store |-> d]

\* variant: the entry is returned until the cleanup thread removes it
get_unexpiring(d, key, t) ==
  IF key \notin DOMAIN d THEN Got(<<>>, d) ELSE Got(<<d[key].value>>, d)

get(d, key, t) ==
  IF key \notin DOMAIN d THEN Got(<<>>, d)
  ELSE IF Expired(d[key], t) THEN Got(<<>>, Without(d, key))
  ELSE Got(<<d[key].value>>, d)

delete(d, key) == Without(d, key)

\* one pass of _cleanup_expired, with the time it read before the lock
cleanup_expired(d, current_time) ==
  [k \in {j \in DOMAIN d : ~Expired(d[j], current_time)} |-> d[k]]

\* the plan texts written, and the names of discovered tools and servers
PlanTexts == {"plan 1", "plan 2"}

Discoverable(key_type) ==
  IF key_type = "discovered_tools" THEN {"web_search", "read_"} ELSE {"mcp"}

\* get_discovered_tools, get_discovered_mcps: the set read, empty if none
get_discovered(d, key_type, project_dir, t) ==
  LET r == get(d, make_key(key_type, project_dir), t)
  IN  Got(IF r.value = <<>> THEN {} ELSE r.value[1], r.store)

\* the lists of names a call of add_discovered_* may be given
NameLists(key_type) == {{name} : name \in Discoverable(key_type)}

\* variant: the names given take the place of the names held
update_replacing(existing, names) == names

\* existing.update(names)
update(existing, names) == existing \cup names

\* the last add_discovered_* that returned: what it read and what it was
\* given; state "none" once anything else happened
Merged(st, key_type, existing, names) ==
  [state |-> st, type |-> key_type, existing |-> existing, names |-> names]

NotMerged == Merged("none", "", {}, {})

\* the threads of the process that call add_discovered_tools for one project
Threads == {"thread 1", "thread 2"}

\* a thread that stands between the read and the write of
\* add_discovered_tools: the names it was given and the set it read
Racing(st, names, existing) == [state |-> st, names |-> names, existing |-> existing]

NotRacing == Racing("idle", {}, {})

\* a session that stands between the read and the write of
\* add_discovered_tools or add_discovered_mcps
Adding(key_type, existing) == [type |-> key_type, existing |-> existing]

NotAdding == Adding("", {})

\* the last read of the store: the record read and what was returned
ReadOf(key_type, project_dir, v) ==
  [type |-> key_type, project |-> project_dir, value |-> v]

NoRead == ReadOf("", "", <<>>)

\* the last write of a record: its value and the time it was made
Written(v, t) == [value |-> v, at |-> t]

\* what the project that is read holds when the sessions start
Held(key_type) ==
  IF key_type = "plan" THEN "plan 2" ELSE Discoverable(key_type)

\* the store after set_plan and add_discovered_* of the session of Reading
\* at time 0
StoreAtStart ==
  LET d1 == set_with_ttl(EmptyDict, make_key("plan", Reading), Held("plan"), TTL, 0)
      d2 == set_with_ttl(d1, make_key("discovered_tools", Reading),
                         Held("discovered_tools"), TTL, 0)
  IN  set_with_ttl(d2, make_key("discovered_mcps", Reading),
                   Held("discovered_mcps"), TTL, 0)

\* the last writes at that point
LastAtStart ==
  LET w1 == With(EmptyDict, make_key("plan", Reading), Written(Held("plan"), 0))
      w2 == With(w1, make_key("discovered_tools", Reading),
                 Written(Held("discovered_tools"), 0))
  IN  With(w2, make_key("discovered_mcps", Reading),
           Written(Held("discovered_mcps"), 0))

\* ------------------------------------------------------ reminders and trim
max_tokens == 90000

\* STATUS.upper()
Upper(status) ==
  CASE status = "not_started" -> "NOT_STARTED"
    [] status = "in_progress" -> "IN_PROGRESS"
    [] status = "completed" -> "COMPLETED"
    [] status = "blocked" -> "BLOCKED"

\* variant: the steps before the current one are counted too
remaining_of_all(statuses, current_index) ==
  Cardinality({i \in 1..Len(statuses) : statuses[i] # "completed"})

\* sum(1 for status in statuses[current_index:] if status != "completed")
remaining_from(statuses, current_index) ==
  Cardinality({i \in (current_index + 1)..Len(statuses) : statuses[i] # "completed"})

\* get_contextual_plan_reminder(plan), the text it builds
get_contextual_plan_reminder(plan) ==
  LET current_index == plan.current_step_index
      n == Len(plan.steps)
  IN  IF current_index >= n THEN "All plan steps completed!"
      ELSE
        LET remaining == remaining_from(plan.step_statuses, current_index)
            current_findings == plan.step_findings[current_index + 1]
        IN  "FOCUS ON STEP " \o ToString(current_index + 1) \o ": "
              \o plan.steps[current_index + 1] \o "\n"
              \o "Status: " \o Upper(plan.step_statuses[current_index + 1]) \o " | "
              \o ToString(remaining) \o " steps remaining\n\n"
              \o (IF current_findings # ""
                    THEN "Previous findings for this step: " \o current_findings \o "\n\n"
                    ELSE "")
              \o (IF current_index + 1 < n
                    THEN "Next step: " \o plan.steps[current_index + 2] \o "\n\n"
                    ELSE "")
              \o "Remember to use 'update_step'"

\* what watcher.format_changes() may give: None, or the drained changes
FileChanges == {"", "<file-changes>\n  modified: a.py\n</file-changes>"}

\* the reminders of one turn of the loop: file changes, then the plan
Reminders(file_changes, plan_data) ==
  (IF file_changes # ""
     THEN <<"Files changed since last turn:\n" \o file_changes>> ELSE <<>>)
  \o (IF plan_data # NoPlan
        THEN <<get_contextual_plan_reminder(json_loads(plan_data))
                 \o "\n\nUse 'update_step' after each research/work session.">>
        ELSE <<>>)

RECURSIVE Joined(_)
\* "\n\n".join(reminders)
Joined(reminders) ==
  IF Len(reminders) = 0 THEN ""
  ELSE IF Len(reminders) = 1 THEN reminders[1]
  ELSE reminders[1] \o "\n\n" \o Joined(Tail(reminders))

reminder_msg(reminders) ==
  StrMsg("system", "<system-reminder>\n" \o Joined(reminders) \o "\n</system-reminder>")

\* variant: the history is handed on as it is
without_reminder(h, reminders) == h

\* msgs + [reminder_msg] if there are reminders, msgs if not
with_reminder(h, reminders) ==
  IF Len(reminders) > 0 THEN Append(h, reminder_msg(reminders)) ELSE h

\* the token counts the tokenizer may give a message: a few, or more than
\* the whole budget
TokenCounts == {1, max_tokens + 1}

RECURSIVE SumSeq(_)
SumSeq(q) == IF Len(q) = 0 THEN 0 ELSE Head(q) + SumSeq(Tail(q))

\* q without its elements k .. k + n - 1
Cut(q, k, n) == SubSeq(q, 1, k - 1) \o SubSeq(q, k + n, Len(q))

HasType(m, t) == \E j \in 1..Len(m.blocks) : m.blocks[j].type = t

RECURSIVE kept_by_trim(_, _, _, _)

\* variant: every message is a unit of its own
unit_size_one(ms, k) == 1

\* the messages dropped with message k: a request with the results that
\* follow it, any other message alone
unit_size(ms, k) ==
  IF /\ k < Len(ms)
     /\ HasType(ms[k], "tool_use")
     /\ HasType(ms[k + 1], "tool_result")
    THEN 2 ELSE 1

\* the positions of ms that the budgeter keeps, of the positions idx still
\* held: while the messages held exceed the budget, the oldest message
\* that is no system message is dropped with its unit; system messages are
\* always kept.
kept_by_trim(idx, ms, counts, budget) ==
  LET held == [i \in 1..Len(idx) |-> ms[idx[i]]]
      droppable == {i \in 1..Len(idx) : held[i].role # "system"}
  IN  IF SumSeq([i \in 1..Len(idx) |-> counts[idx[i]]]) <= budget \/ droppable = {}
        THEN idx
        ELSE LET k == CHOOSE i \in droppable : \A j \in droppable : i <= j
             IN  kept_by_trim(Cut(idx, k, unit_size(held, k)), ms, counts, budget)

\* The budgeter: the messages kept, in order
token_cutter(ms, counts, budget) ==
  LET idx == kept_by_trim([i \in 1..Len(ms) |-> i], ms, counts, budget)
  IN  [i \in 1..Len(idx) |-> ms[idx[i]]]

\* the token counts of the messages the budgeter keeps
token_cutter_counts(ms, counts, budget) ==
  LET idx == kept_by_trim([i \in 1..Len(ms) |-> i], ms, counts, budget)
  IN  [i \in 1..Len(idx) |-> counts[idx[i]]]

\* the last trim of the loop: the candidate, its token counts, what was
\* kept; state "none" once anything else happened
Trimmed(st, candidate, counts, out, out_counts) ==
  [state |-> st, candidate |-> candidate, counts |-> counts,
   out |-> out, out_counts |-> out_counts]

NotTrimmed == Trimmed("none", <<>>, <<>>, <<>>, <<>>)

\* model_call: the contents of the system messages of the input, which
\* become the `system` parameter of the request
system_prompts(input) ==
  LET IsSystemRole(m) == m.role = "system"
      systems == SelectSeq(input, IsSystemRole)
  IN  [i \in 1..Len(systems) |-> systems[i].blocks[1].body]

\* the histories a turn of the loop may start from: a query just asked, and
\* a query followed by a folded batch
TurnHistories ==
  { <<SystemPrompt, UserQuery>>,
    <<SystemPrompt, UserQuery,
      Msg("assistant", FALSE, <<Block("tool_use", 1, "make_plan", "")>>),
      Msg("user", FALSE, <<Block("tool_result", 1, "", "ok")>>)>> }

\* the input of the last model call: the system prompts it carried and the
\* file changes drained for it; state "none": no call since the plan changed
Given(st, sys, fc) == [state |-> st, system |-> sys, changes |-> fc]

NotGiven == Given("none", <<>>, "")

\* ------------------------------------------------------------- file watcher
\* a path part: its name is stem \o ext, ext the suffix from the last dot
Part(stem, ext) == [stem |-> stem, ext |-> ext]

NameOf(part) == part.stem \o part.ext

\* IGNORE_PATTERNS: a pattern written '*x' has star, and text x
Pattern(star, text) == [star |-> star, text |-> text]

IGNORE_PATTERNS ==
  {Pattern(FALSE, t) : t \in {".git", "__pycache__", ".pyc", ".pyo", ".swp", ".swo",
                              ".DS_Store", "node_modules", ".env", ".venv", "env",
                              "venv", ".idea", ".vscode", ".micro-cc"}}
    \cup {Pattern(TRUE, ".log")}

\* should_ignore(path)
should_ignore(path) ==
  \E i \in 1..Len(path) :
    \/ \E pattern \in IGNORE_PATTERNS :
         ~pattern.star /\ NameOf(path[i]) = pattern.text
    \/ \E pattern \in IGNORE_PATTERNS :
         pattern.star /\ path[i].ext = pattern.text

\* the watched directory
project_dir == <<Part("proj", "")>>

\* os.path.relpath(path, project_dir) of a path below project_dir
relpath(path) == SubSeq(path, Len(project_dir) + 1, Len(path))

\* (event_type, rel_path)
Entry(event_type, rel_path) == [event_type |-> event_type, path |-> rel_path]

\* an event of the observer
FsEvent(event_type, src_path, is_directory) ==
  [event_type |-> event_type, src_path |-> src_path, is_directory |-> is_directory]

FsEvents ==
  { FsEvent("modified", project_dir \o <<Part("a", ".py")>>, FALSE),
    FsEvent("created", project_dir \o <<Part("a", ".py")>>, FALSE),
    FsEvent("modified", project_dir \o <<Part("src", ""), Part("b", ".py")>>, FALSE),
    FsEvent("modified", project_dir \o <<Part("src", "")>>, TRUE),
    FsEvent("modified", project_dir \o <<Part(".git", ""), Part("index", "")>>, FALSE),
    FsEvent("modified", project_dir \o <<Part("debug", ".log")>>, FALSE) }

\* the entries the handler can come to record
Entries == {Entry(e.event_type, relpath(e.src_path)) : e \in FsEvents}

\* `entry in self.changes`
InChanges(entry, buf) == \E i \in 1..Len(buf) : buf[i] = entry

\* the state of the one call of _record the observer thread is in
Recording(st, entry) == [state |-> st, entry |-> entry]

NotRecording == Recording("idle", Entry("", <<>>))

\* the state of the one call of drain the loop is in
Draining(st, copy) == [state |-> st, copy |-> copy]

NotDraining == Draining("idle", <<>>)

\* variant: the block is entered whoever holds the lock
may_enter_unlocked(holder) == TRUE

\* `with self._lock:` is entered when no thread holds the lock
may_enter(holder) == holder = ""

\* -------------------------------------------------------------------- state
VARIABLES
  pc,            \* where the generator stands
  calls,         \* model calls made so far
  nextId,        \* id the next tool_use block will get
  stored,        \* messages.jsonl of the project: the lines last written
  msgs,          \* the in-memory history of the running query
  sent,          \* the history as it stood at the last model call
  events,        \* the events yielded by the running query, in order
  cells,         \* the decision cells created by the running query
  thinking,      \* whether the last response had a thinking block
  local,         \* local_tool_blocks of the last response with tool_use blocks
  ai,            \* position of the approval loop in local
  invoked,       \* how often the handler of local[i] was entered
  returned,      \* result of task i, Pending while it runs
  order,         \* the tasks in the order they completed
  raised,        \* the tasks whose handler raised
  tool_results,  \* what gather returned
  blocks,        \* tool_result_blocks being built
  fi,            \* position of the folding loop in local
  tools,         \* keys of the `tools` dict of the running query
  discovered,    \* the project's discovered_tools record
  failure,       \* kind of the last transport failure ("" if none)
  response,      \* the last response of the running query: what it held
  plans,         \* the plan record of each project key, NoPlan if none
  op,            \* the last plan-tool call: its arguments and what it returned
  kv,            \* RedisStateManager._store
  now,           \* time.time()
  ticks,         \* how often the clock was seen to move
  writes,        \* writes and clears made so far
  adding,        \* per session: the add_discovered_* call it is in
  got,           \* the last read, NoRead once anything else happened
  last,          \* per key written and not cleared: the last write
  loaded,        \* what the last load_msgs gave, NotLoaded once the file changed
  overwritten,   \* number of lines the file held before the last store_msgs
  given,         \* the input of the last model call, NotGiven once the plan changed
  changes,       \* ChangeHandler.changes
  lock,          \* the holder of ChangeHandler._lock, "" if free
  recording,     \* the call of _record the observer thread is in
  draining,      \* the call of drain the loop is in
  drains,        \* calls of drain that returned
  records,       \* events handed to the handler so far
  cycle,         \* the entries recorded since the last drain took the buffer
  recorded,      \* per entry: the drain cycles in which it was recorded
  reported,      \* per entry: the drains that returned it
  merged,        \* the last add_discovered_* that returned, NotMerged after
  trimmed,       \* the last trim of the loop, NotTrimmed after
  racing,        \* per thread: the add_discovered_tools call it is in
  added          \* the names given to the add_discovered_tools calls that returned

loopVars == <<pc, calls, nextId, stored, msgs, sent, events, cells,
              thinking, local, ai, invoked, returned, order, raised,
              tool_results, blocks, fi, tools, discovered, failure, response>>

planVars == <<plans, op>>

cacheVars == <<kv, now, ticks, writes, adding, got, last>>

\* the stores the loop and the plan tools leave alone in their steps
fileVars == <<loaded, overwritten>>

watchVars == <<changes, lock, recording, draining, drains, records,
               cycle, recorded, reported>>

raceVars == <<racing, added>>

moreVars == <<watchVars, merged, trimmed, raceVars>>

sideVars == <<cacheVars, fileVars, given, moreVars>>

vars == <<loopVars, planVars, sideVars>>

batchVars == <<thinking, local, ai, invoked, returned, order, raised,
               tool_results, blocks, fi>>

\* the generator is not running: the prompt of start_ is waiting for input
Stopped == {"idle", "done", "cancelled", "interrupted", "crashed"}

\* variant: no filter, every tool_use block is taken as local
IsRegisteredOrNot(u) == TRUE

\* tb.name in tools
IsRegistered(u) == u.name \in tools

Init ==
  /\ pc = "idle"
  /\ calls = 0
  /\ nextId = 1
  /\ stored = <<>>
  /\ msgs = <<>>
  /\ sent = <<>>
  /\ events = <<>>
  /\ cells = <<>>
  /\ thinking = FALSE
  /\ local = <<>>
  /\ ai = 1
  /\ invoked = <<>>
  /\ returned = <<>>
  /\ order = <<>>
  /\ raised = {}
  /\ tool_results = <<>>
  /\ blocks = <<>>
  /\ fi = 1
  /\ tools = default_tools
  /\ discovered = {}
  /\ failure = ""
  /\ response = NoResponse
  /\ plans = [p \in ProjectKeys |-> NoPlan]
  /\ op = NoOp
  /\ kv = StoreAtStart
  /\ now = 0
  /\ ticks = 0
  /\ writes = 0
  /\ adding = [s \in CacheProjects |-> NotAdding]
  /\ got = NoRead
  /\ last = LastAtStart
  /\ loaded = NotLoaded
  /\ overwritten = 0
  /\ given = NotGiven
  /\ changes = <<>>
  /\ lock = ""
  /\ recording = NotRecording
  /\ draining = NotDraining
  /\ drains = 0
  /\ records = 0
  /\ cycle = {}
  /\ recorded = [e \in Entries |-> 0]
  /\ reported = [e \in Entries |-> 0]
  /\ merged = NotMerged
  /\ trimmed = NotTrimmed
  /\ racing = [t \in Threads |-> NotRacing]
  /\ added = {}

\* variant: the system message is put in front of every loaded history
with_system_always(history) == <<SystemPrompt>> \o history

\* `if not msgs: msgs = [system message]`
with_system(history) == IF Len(history) = 0 THEN <<SystemPrompt>> ELSE history

\* ------------------------------------------------------------------ actions
\* claude_loop up to the top of `while True`: load the transcript, build the
\* tools dict, yield status, synthesize the system message if the history is
\* empty, append the user query
StartQuery ==
  /\ pc \in Stopped
  /\ calls < MaxCalls
  /\ LET history == load_msgs(stored).msgs
     IN  msgs' = Append(with_system(history), UserQuery)
  /\ tools' = default_tools \cup discovered
  /\ events' = <<Plain("status")>>
  /\ cells' = <<>>
  /\ thinking' = FALSE
  /\ local' = <<>>
  /\ ai' = 1
  /\ invoked' = <<>>
  /\ returned' = <<>>
  /\ order' = <<>>
  /\ raised' = {}
  /\ tool_results' = <<>>
  /\ blocks' = <<>>
  /\ fi' = 1
  /\ failure' = ""
  /\ response' = NoResponse
  /\ pc' = "reminders"
  /\ UNCHANGED <<calls, nextId, stored, sent, discovered>>
  /\ UNCHANGED <<planVars, sideVars>>

\* variant: /clear drops the records of the project with the transcript
EraseWithRecords ==
  /\ pc \in Stopped
  /\ Len(stored) > 0
  /\ stored' = <<>>
  /\ pc' = "idle"
  /\ plans' = [plans EXCEPT ![LoopProject] = NoPlan]
  /\ discovered' = {}
  /\ UNCHANGED <<calls, nextId, msgs, sent, events, cells, batchVars,
                 tools, failure>>
  /\ UNCHANGED <<response, op, sideVars>>

\* /clear at the prompt: erase_msgs
Erase ==
  /\ pc \in Stopped
  /\ Len(stored) > 0
  /\ stored' = <<>>
  /\ pc' = "idle"
  /\ UNCHANGED <<calls, nextId, msgs, sent, events, cells, batchVars,
                 tools, discovered, failure>>
  /\ UNCHANGED <<response, planVars, sideVars>>

\* top of the while loop: reminders assembled, history trimmed, model_call
\* awaited
CallModel ==
  /\ pc = "reminders"
  /\ calls < MaxCalls
  /\ calls' = calls + 1
  /\ sent' = msgs
  /\ pc' = "model"
  /\ UNCHANGED <<nextId, stored, msgs, events, cells, batchVars,
                 tools, discovered, failure>>
  /\ UNCHANGED <<response, planVars, sideVars>>

\* an exception raised while the reminders are assembled or the history is
\* trimmed: these statements stand before the `try`, so it leaves the
\* generator
ReminderRaise ==
  /\ pc = "reminders"
  /\ pc' = "crashed"
  /\ UNCHANGED <<calls, nextId, stored, msgs, sent, events, cells,
                 batchVars, tools, discovered, failure>>
  /\ UNCHANGED <<response, planVars, sideVars>>

Narration(th, tx) ==
  (IF th THEN <<Plain("thinking")>> ELSE <<>>)
  \o (IF tx THEN <<Plain("text")>> ELSE <<>>)

\* a response with tool_use blocks: thinking and intermediate text are
\* yielded, local_tool_blocks is computed.  The responses drawn carry
\* either no narration or a thinking block and intermediate text.
ModelToolUse ==
  /\ pc = "model"
  /\ \E th \in BOOLEAN, tx \in BOOLEAN,
        n \in 1..(MaxReqs - (nextId - 1)) :
       \E names \in [1..n -> ToolNames] :
          LET uses == [i \in 1..n |-> [id |-> nextId + i - 1, name |-> names[i]]]
              loc == SelectSeq(uses, IsRegistered)
          IN  /\ tx = th
              /\ events' = events \o Narration(th, tx)
              /\ thinking' = th
              /\ local' = loc
              /\ invoked' = [i \in 1..Len(loc) |-> 0]
              /\ returned' = [i \in 1..Len(loc) |-> Pending]
              /\ nextId' = nextId + n
              /\ response' = Response("tool_use", uses)
  /\ ai' = 1
  /\ order' = <<>>
  /\ raised' = {}
  /\ tool_results' = <<>>
  /\ blocks' = <<>>
  /\ fi' = 1
  /\ pc' = "approvals"
  /\ UNCHANGED <<calls, stored, msgs, sent, cells, tools, discovered,
                 failure>>
  /\ UNCHANGED <<planVars, sideVars>>

\* variant: the final answer is yielded before the history is stored
ModelFinalUnstored ==
  /\ pc = "model"
  /\ \E th \in BOOLEAN :
       events' = events \o Narration(th, FALSE) \o <<Plain("final_text")>>
  /\ msgs' = Append(msgs, StrMsg("assistant", "answer"))
  /\ response' = Response("final", <<>>)
  /\ pc' = "final_yield"
  /\ UNCHANGED <<calls, nextId, stored, sent, cells, batchVars, tools,
                 discovered, failure>>
  /\ UNCHANGED <<planVars, sideVars>>

\* a response with text and no tool_use block: the final answer
ModelFinal ==
  /\ pc = "model"
  /\ \E th \in BOOLEAN :
       events' = events \o Narration(th, FALSE) \o <<Plain("final_text")>>
  /\ msgs' = Append(msgs, StrMsg("assistant", "answer"))
  /\ stored' = store_msgs(msgs')
  /\ response' = Response("final", <<>>)
  /\ pc' = "final_yield"
  /\ UNCHANGED <<calls, nextId, sent, cells, batchVars, tools,
                 discovered, failure>>
  /\ UNCHANGED <<planVars, sideVars>>

\* a response with neither text nor tool_use block: the loop goes round
ModelEmpty ==
  /\ pc = "model"
  /\ \E th \in BOOLEAN : events' = events \o Narration(th, FALSE)
  /\ response' = Response("empty", <<>>)
  /\ pc' = "reminders"
  /\ UNCHANGED <<calls, nextId, stored, msgs, sent, cells, batchVars,
                 tools, discovered, failure>>
  /\ UNCHANGED <<planVars, sideVars>>

\* model_call gives up after its retries: it prints the failure and returns
\* None; `response.content` then raises AttributeError inside the try, and
\* the handler yields the error event
ModelFail ==
  /\ pc = "model"
  /\ \E k \in TransportKinds : failure' = k
  /\ response' = Response("failed", <<>>)
  /\ events' = Append(events, Ev("error", "", 0, 0, "AttributeError"))
  /\ pc' = "error_yield"
  /\ UNCHANGED <<calls, nextId, stored, msgs, sent, cells, batchVars,
                 tools, discovered>>
  /\ UNCHANGED <<planVars, sideVars>>

\* approval loop, a benign request: only the tool_call event
NotifyBenign ==
  /\ pc = "approvals"
  /\ ai <= Len(local)
  /\ local[ai].name \notin DANGEROUS_TOOLS
  /\ events' = Append(events, Ev("tool_call", local[ai].name, local[ai].id, 0, ""))
  /\ ai' = ai + 1
  /\ UNCHANGED <<pc, calls, nextId, stored, msgs, sent, cells,
                 thinking, local, invoked, returned, order, raised,
                 tool_results, blocks, fi, tools, discovered, failure>>
  /\ UNCHANGED <<response, planVars, sideVars>>

\* approval loop, a privileged request: tool_call, then approval_request
\* with a new cell; the generator is suspended at that yield
RequestApproval ==
  /\ pc = "approvals"
  /\ ai <= Len(local)
  /\ local[ai].name \in DANGEROUS_TOOLS
  /\ cells' = FreshCell(cells)
  /\ events' = events \o
       << Ev("tool_call", local[ai].name, local[ai].id, 0, ""),
          Ev("approval_request", local[ai].name, local[ai].id, Len(cells'), "") >>
  /\ pc' = "await_approval"
  /\ UNCHANGED <<calls, nextId, stored, msgs, sent, batchVars, tools,
                 discovered, failure>>
  /\ UNCHANGED <<response, planVars, sideVars>>

\* the consumer answers (or does not) and resumes the generator, which finds
\* the cell approved and goes on to the next request
ResumeApproved ==
  /\ pc = "await_approval"
  /\ \E d \in {"approved", "denied", "unset"} :
       /\ cells' = Decide(cells, events[Len(events)].cell, d)
       /\ Approved(cells'[Len(cells')])
  /\ ai' = ai + 1
  /\ pc' = "approvals"
  /\ UNCHANGED <<calls, nextId, stored, msgs, sent, events, thinking,
                 local, invoked, returned, order, raised, tool_results, blocks,
                 fi, tools, discovered, failure>>
  /\ UNCHANGED <<response, planVars, sideVars>>

\* variant: a refusal skips the refused request only
ResumeRefusedSkipsOne ==
  /\ pc = "await_approval"
  /\ \E d \in {"approved", "denied", "unset"} :
       /\ cells' = Decide(cells, events[Len(events)].cell, d)
       /\ ~Approved(cells'[Len(cells')])
  /\ ai' = ai + 1
  /\ pc' = "approvals"
  /\ UNCHANGED <<calls, nextId, stored, msgs, sent, events, thinking,
                 local, invoked, returned, order, raised, tool_results, blocks,
                 fi, tools, discovered, failure>>
  /\ UNCHANGED <<response, planVars, sideVars>>

\* ... which finds the cell not approved: store the history, yield cancelled
ResumeRefused ==
  /\ pc = "await_approval"
  /\ \E d \in {"approved", "denied", "unset"} :
       /\ cells' = Decide(cells, events[Len(events)].cell, d)
       /\ ~Approved(cells'[Len(cells')])
  /\ stored' = store_msgs(msgs)
  /\ events' = Append(events, Plain("cancelled"))
  /\ pc' = "cancelled_yield"
  /\ UNCHANGED <<calls, nextId, msgs, sent, batchVars, tools,
                 discovered, failure>>
  /\ UNCHANGED <<response, planVars, sideVars>>

\* variant: `break` in place of `return` after cancelled
AfterCancelledBreaks ==
  /\ pc = "cancelled_yield"
  /\ stored' = store_msgs(msgs)
  /\ events' = Append(events, Plain("done"))
  /\ pc' = "done"
  /\ UNCHANGED <<calls, nextId, msgs, sent, cells, batchVars, tools,
                 discovered, failure>>
  /\ UNCHANGED <<response, planVars, sideVars>>

\* the generator is resumed after cancelled and returns
AfterCancelled ==
  /\ pc = "cancelled_yield"
  /\ pc' = "cancelled"
  /\ UNCHANGED <<calls, nextId, stored, msgs, sent, events, cells,
                 batchVars, tools, discovered, failure>>
  /\ UNCHANGED <<response, planVars, sideVars>>

\* the approval loop is over: one task per local block, gathered
Dispatch ==
  /\ pc = "approvals"
  /\ ai > Len(local)
  /\ Len(local) > 0
  /\ pc' = "exec"
  /\ UNCHANGED <<calls, nextId, stored, msgs, sent, events, cells,
                 batchVars, tools, discovered, failure>>
  /\ UNCHANGED <<response, planVars, sideVars>>

\* every tool_use block of the response names an unregistered capability:
\* nothing to gather, nothing appended, the loop goes round
SkipNonLocal ==
  /\ pc = "approvals"
  /\ Len(local) = 0
  /\ pc' = "reminders"
  /\ UNCHANGED <<calls, nextId, stored, msgs, sent, events, cells,
                 batchVars, tools, discovered, failure>>
  /\ UNCHANGED <<response, planVars, sideVars>>

\* task i runs execute_tool_call to its end.  An exception that leaves
\* execute_tool_call leaves gather too and reaches the handler of the loop.
ToolRun ==
  /\ \E i \in 1..Len(local) :
       /\ CanRun(pc, ai, i)
       /\ returned[i] = Pending
       /\ \E o \in HandlerOutcomes(local[i].name) :
            LET r == execute_tool_call(local[i].name, tools, o)
            IN  /\ invoked' = [invoked EXCEPT ![i] = @ + 1]
                /\ raised' = IF o = "raise" THEN raised \cup {i} ELSE raised
                /\ IF r = "raise"
                     THEN /\ events' = Append(events, Ev("error", "", 0, 0, "HandlerError"))
                          /\ pc' = "error_yield"
                          /\ UNCHANGED <<returned, order>>
                     ELSE /\ returned' = [returned EXCEPT ![i] = r]
                          /\ order' = Append(order, i)
                          /\ UNCHANGED <<pc, events>>
  /\ UNCHANGED <<calls, nextId, stored, msgs, sent, cells, thinking,
                 local, ai, tool_results, blocks, fi, tools, discovered,
                 failure>>
  /\ UNCHANGED <<response, planVars, sideVars>>

\* gather returns; the assistant message of the batch is appended
FoldAssistant ==
  /\ pc = "exec"
  /\ \A i \in 1..Len(local) : returned[i] # Pending
  /\ tool_results' = Gather(returned, order)
  /\ msgs' = Append(msgs, AssistantMsg(thinking, local))
  /\ fi' = 1
  /\ blocks' = <<>>
  /\ pc' = "folding"
  /\ UNCHANGED <<calls, nextId, stored, sent, events, cells, thinking,
                 local, ai, invoked, returned, order, raised, tools,
                 discovered, failure>>
  /\ UNCHANGED <<response, planVars, sideVars>>

\* one iteration of zip(local_tool_blocks, tool_results): the discovery
\* hook, the tool_result event, the tool_result block
FoldResult ==
  /\ pc = "folding"
  /\ fi <= Len(local)
  /\ discovered' =
       IF local[fi].name = "search_tools" /\ tool_results[fi] = "dict"
         THEN discovered \cup {"web_search"}
         ELSE discovered
  /\ events' = Append(events,
       Ev("tool_result", local[fi].name, local[fi].id, 0, Display(tool_results[fi])))
  /\ blocks' = AppendResult(blocks, local[fi], tool_results[fi])
  /\ fi' = fi + 1
  /\ UNCHANGED <<pc, calls, nextId, stored, msgs, sent, cells,
                 thinking, local, ai, invoked, returned, order, raised,
                 tool_results, tools, failure>>
  /\ UNCHANGED <<response, planVars, sideVars>>

\* the result message is appended; the response had tool_use blocks, so the
\* loop goes round
FoldDone ==
  /\ pc = "folding"
  /\ fi > Len(local)
  /\ msgs' = Append(msgs, Msg("user", FALSE, blocks))
  /\ pc' = "reminders"
  /\ UNCHANGED <<calls, nextId, stored, sent, events, cells,
                 batchVars, tools, discovered, failure>>
  /\ UNCHANGED <<response, planVars, sideVars>>

\* after final_text or error: break, store_msgs, yield done
Finalize ==
  /\ pc \in {"final_yield", "error_yield"}
  /\ stored' = store_msgs(msgs)
  /\ events' = Append(events, Plain("done"))
  /\ pc' = "done"
  /\ UNCHANGED <<calls, nextId, msgs, sent, cells, batchVars, tools,
                 discovered, failure>>
  /\ UNCHANGED <<response, planVars, sideVars>>

\* Ctrl+C or task cancellation while the loop awaits the model, an approval
\* or the tools: CancelledError / GeneratorExit is no Exception, so the
\* handler of the loop does not see it and the generator is unwound;
\* start_ prints [interrupted] and prompts again
Interrupt ==
  /\ pc \in {"model", "await_approval", "exec"}
  /\ pc' = "interrupted"
  /\ UNCHANGED <<calls, nextId, stored, msgs, sent, events, cells,
                 batchVars, tools, discovered, failure>>
  /\ UNCHANGED <<response, planVars, sideVars>>

Next ==
  \/ StartQuery
  \/ Erase
  \/ CallModel
  \/ ReminderRaise
  \/ ModelToolUse
  \/ ModelFinal
  \/ ModelEmpty
  \/ ModelFail
  \/ NotifyBenign
  \/ RequestApproval
  \/ ResumeApproved
  \/ ResumeRefused
  \/ AfterCancelled
  \/ Dispatch
  \/ SkipNonLocal
  \/ ToolRun
  \/ FoldAssistant
  \/ FoldResult
  \/ FoldDone
  \/ Finalize
  \/ Interrupt

Spec == Init /\ [][Next]_vars

\* ------------------------------------------------- plan tools, dispatched
\* The plan tools are reached through execute_tool_call only: the response
\* names the tool and gives the arguments, execute_tool_call adds project_dir
\* where the handler has that parameter and calls the handler.

AllTools == PlanTools \cup {"bash_"}

\* the status of step idx of the plan under key, "" when there is none
StatusAt(store, key, idx) ==
  IF key \notin ProjectKeys \/ store[key] = NoPlan THEN ""
  ELSE IF idx < 0 \/ idx >= Len(json_loads(store[key]).steps) THEN ""
  ELSE json_loads(store[key]).step_statuses[idx + 1]

\* the position of the plan under key, <<>> when there is none
IndexAt(store, key) ==
  IF key \notin ProjectKeys \/ store[key] = NoPlan THEN <<>>
  ELSE <<json_loads(store[key]).current_step_index>>

\* the status and findings arguments of the update_step requests: a status
\* alone (a valid one, an invalid one, or none), findings alone (empty or
\* not), and both together
Updates ==
  {u \in ({None, "bogus"} \cup Statuses) \X {None, "", "findings"} :
     u[1] = None \/ u[2] = None \/ u = <<"completed", "findings">>}

\* tool_call.input of the request
ArgsOf(o) ==
  CASE o.name = "make_plan" -> WithPath([content |-> o.content], o.path)
    [] o.name = "update_step" ->
         WithPath([step_index |-> o.index, status |-> o.status, findings |-> o.findings],
                  o.path)
    [] o.name = "add_step" -> WithPath([step_description |-> AddedStep], o.path)
    [] o.name = "show_full_plan" ->
         IF o.path = Missing THEN [k \in {} |-> ""]
         ELSE [user_id |-> o.path, conversation_id |-> "1"]
    [] o.name = "bash_" -> [command |-> "ls"]

\* tool(**args): what the handler returns, "raise" when it raises
Call(name, args, store, outcome) ==
  IF ~Binds(name, args) THEN Ret("raise", store)
  ELSE CASE name = "make_plan" -> make_plan(store, args["content"], args["project_path"])
         [] name = "update_step" ->
              update_step(store, args["step_index"], args["status"], args["findings"],
                          args["project_path"])
         [] name = "add_step" ->
              add_step(store, args["step_description"], args["project_path"])
         [] name = "show_full_plan" ->
              Ret(show_full_plan(store, args["user_id"], args["conversation_id"]), store)
         [] name = "bash_" -> Ret(outcome, store)

\* the response holds a tool_use block for make_plan
RequestMakePlan ==
  /\ op.phase = "idle"
  /\ \E p \in ModelPaths, c \in Contents :
       /\ p = Missing => c = Content_("plan", 1)
       /\ op' = Request("make_plan", p, c, <<>>, None, None)
  /\ UNCHANGED <<plans, loopVars, sideVars>>

\* the response holds a tool_use block for update_step
RequestUpdateStep ==
  /\ op.phase = "idle"
  /\ \E p \in ModelPaths,
        si \in {<<>>} \cup {<<i>> : i \in (-1)..MaxSteps},
        u \in Updates :
       /\ p = Missing => (si = <<>> /\ u = <<None, None>>)
       /\ op' = Request("update_step", p, NoContent, si, u[1], u[2])
  /\ UNCHANGED <<plans, loopVars, sideVars>>

\* the response holds a tool_use block for add_step
RequestAddStep ==
  /\ op.phase = "idle"
  /\ StepCount(plans, LoopProject) < MaxSteps
  /\ \E p \in ModelPaths : op' = Request("add_step", p, NoContent, <<>>, None, None)
  /\ UNCHANGED <<plans, loopVars, sideVars>>

\* the response holds a tool_use block for show_full_plan, with or without
\* the two parameters its schema lists
RequestShowFullPlan ==
  /\ op.phase = "idle"
  /\ \E p \in ModelPaths : op' = Request("show_full_plan", p, NoContent, <<>>, None, None)
  /\ UNCHANGED <<plans, loopVars, sideVars>>

\* the response holds a tool_use block for bash_, a handler with the
\* project_dir parameter
RequestBash ==
  /\ op.phase = "idle"
  /\ op' = Request("bash_", Missing, NoContent, <<>>, None, None)
  /\ UNCHANGED <<plans, loopVars, sideVars>>

\* execute_tool_call on the request
Execute ==
  /\ op.phase = "requested"
  /\ \E o \in HandlerOutcomes("bash_") :
       LET args == Inject(op.name, ArgsOf(op))
           r == Call(op.name, args, plans, o)
           key == IF ProjectParam(op.name) \in DOMAIN args
                    THEN args[ProjectParam(op.name)] ELSE Missing
           idx == IF op.index = <<>> THEN IndexAt(plans, key) ELSE op.index
       IN  /\ plans' = r.store
           /\ op' = [op EXCEPT !.phase = "returned",
                               !.project = key,
                               !.result = execute_tool_call(op.name, AllTools, r.text),
                               !.was_status = IF idx = <<>> THEN ""
                                              ELSE StatusAt(plans, key, idx[1]),
                               !.was_index = IndexAt(plans, key)]
  /\ UNCHANGED <<loopVars, sideVars>>

\* the result is folded into the history and the loop goes round
FoldPlanResult ==
  /\ op.phase = "returned"
  /\ op' = NoOp
  /\ UNCHANGED <<plans, loopVars, sideVars>>

NextPlan ==
  \/ RequestMakePlan
  \/ RequestUpdateStep
  \/ RequestAddStep
  \/ RequestShowFullPlan
  \/ RequestBash
  \/ Execute
  \/ FoldPlanResult

SpecPlan == Init /\ [][NextPlan]_vars



\* ----------------------------------------------------- state store, shared
\* Two projects have a session each; the sessions call the store side by
\* side.  Each method takes the lock for the dict access alone, so the read
\* and the write of add_discovered_* are two steps.

\* set_plan(project_dir, plan)
CacheSetPlan(s) ==
  /\ adding[s] = NotAdding
  /\ writes < MaxWrites
  /\ \E text \in PlanTexts :
       /\ kv' = set_with_ttl(kv, make_key("plan", s), text, TTL, now)
       /\ last' = With(last, make_key("plan", s), Written(text, now))
  /\ writes' = writes + 1
  /\ got' = NoRead
  /\ UNCHANGED <<now, ticks, adding, loopVars, planVars, fileVars, given, watchVars, trimmed, raceVars>>
  /\ merged' = NotMerged

\* get_plan(project_dir)
CacheGetPlan(s) ==
  /\ adding[s] = NotAdding
  /\ LET r == get(kv, make_key("plan", s), now)
     IN  /\ kv' = r.store
         /\ got' = ReadOf("plan", s, r.value)
  /\ UNCHANGED <<now, ticks, writes, adding, last, loopVars, planVars, fileVars, given, watchVars, trimmed, raceVars>>
  /\ merged' = NotMerged

\* get_discovered_tools(project_dir), get_discovered_mcps(project_dir)
CacheGetDiscovered(s) ==
  /\ adding[s] = NotAdding
  /\ \E ty \in KeyTypes \ {"plan"} :
       LET r == get_discovered(kv, ty, s, now)
       IN  /\ kv' = r.store
           /\ got' = ReadOf(ty, s, r.value)
  /\ UNCHANGED <<now, ticks, writes, adding, last, loopVars, planVars, fileVars, given, watchVars, trimmed, raceVars>>
  /\ merged' = NotMerged

\* add_discovered_*: existing = self.get_discovered_*(project_dir)
CacheAddRead(s) ==
  /\ adding[s] = NotAdding
  /\ writes < MaxWrites
  /\ \E ty \in KeyTypes \ {"plan"} :
       LET r == get_discovered(kv, ty, s, now)
       IN  /\ kv' = r.store
           /\ adding' = [adding EXCEPT ![s] = Adding(ty, r.value)]
  /\ got' = NoRead
  /\ UNCHANGED <<now, ticks, writes, last, loopVars, planVars, fileVars, given, watchVars, trimmed, raceVars>>
  /\ merged' = NotMerged

\* add_discovered_*: existing.update([name]); self._set_with_ttl(key, data, 3600)
CacheAddWrite(s) ==
  /\ adding[s] # NotAdding
  /\ \E names \in NameLists(adding[s].type) :
       LET key == make_key(adding[s].type, s)
           data == update(adding[s].existing, names)
       IN  /\ kv' = set_with_ttl(kv, key, data, TTL, now)
           /\ last' = With(last, key, Written(data, now))
           /\ merged' = Merged("done", adding[s].type, adding[s].existing, names)
  /\ adding' = [adding EXCEPT ![s] = NotAdding]
  /\ writes' = writes + 1
  /\ got' = NoRead
  /\ UNCHANGED <<now, ticks, loopVars, planVars, fileVars, given, watchVars, trimmed, raceVars>>

\* clear_discovered_tools(project_dir), clear_discovered_mcps(project_dir)
CacheClear(s) ==
  /\ adding[s] = NotAdding
  /\ writes < MaxWrites
  /\ \E ty \in KeyTypes \ {"plan"} :
       /\ make_key(ty, s) \in DOMAIN kv
       /\ kv' = delete(kv, make_key(ty, s))
       /\ last' = Without(last, make_key(ty, s))
  /\ writes' = writes + 1
  /\ got' = NoRead
  /\ UNCHANGED <<now, ticks, adding, loopVars, planVars, fileVars, given, watchVars, trimmed, raceVars>>
  /\ merged' = NotMerged

\* one pass of the cleanup thread, if it was started
Cleanup ==
  /\ \E current_time \in {now - 1, now} :
       /\ kv' = cleanup_expired(kv, current_time)
       /\ kv' # kv
  /\ got' = NoRead
  /\ UNCHANGED <<now, ticks, writes, adding, last, loopVars, planVars, fileVars, given, watchVars, trimmed, raceVars>>
  /\ merged' = NotMerged

\* time passes: a moment, or the time an entry lives
Tick ==
  /\ ticks < MaxTicks
  /\ \E d \in {1, TTL} : now' = now + d
  /\ ticks' = ticks + 1
  /\ got' = NoRead
  /\ UNCHANGED <<kv, writes, adding, last, loopVars, planVars, fileVars, given, watchVars, trimmed, raceVars>>
  /\ merged' = NotMerged

NextCache ==
  \/ CacheSetPlan(Acting)
  \/ CacheAddRead(Acting)
  \/ CacheAddWrite(Acting)
  \/ CacheClear(Acting)
  \/ \E s \in CacheProjects : CacheGetPlan(s)
  \/ \E s \in CacheProjects : CacheGetDiscovered(s)
  \/ Cleanup
  \/ Tick

SpecCache == Init /\ [][NextCache]_vars


\* ------------------------------------------------- transcript store, alone
\* store_msgs, load_msgs and erase_msgs on the messages.jsonl of one
\* project, with histories of every shape and a file that may hold a line
\* store_msgs did not write.

\* the variables of the loop other than the history and the file
loopRest == <<pc, calls, nextId, sent, events, cells, batchVars, tools,
              discovered, failure, response>>

\* variant: the file is opened for appending
StoreHistoryAppending ==
  /\ \E h \in Histories :
       /\ Len(stored) + Len(h) <= MaxMsgs
       /\ msgs' = h
       /\ stored' = stored \o store_msgs(h)
  /\ overwritten' = Len(stored)
  /\ loaded' = NotLoaded
  /\ UNCHANGED <<loopRest, planVars, cacheVars, given, moreVars>>

\* store_msgs(project_dir, h)
StoreHistory ==
  /\ \E h \in Histories :
       /\ msgs' = h
       /\ stored' = store_msgs(h)
  /\ overwritten' = Len(stored)
  /\ loaded' = NotLoaded
  /\ UNCHANGED <<loopRest, planVars, cacheVars, given, moreVars>>

\* load_msgs(project_dir)
LoadHistory ==
  /\ loaded.state = "none"
  /\ loaded' = load_msgs(stored)
  /\ UNCHANGED <<stored, msgs, overwritten, loopRest, planVars, cacheVars, given, moreVars>>

\* store_msgs(project_dir, load_msgs(project_dir))
StoreLoaded ==
  /\ loaded.state = "ok"
  /\ msgs' = loaded.msgs
  /\ stored' = store_msgs(loaded.msgs)
  /\ overwritten' = Len(stored)
  /\ loaded' = NotLoaded
  /\ UNCHANGED <<loopRest, planVars, cacheVars, given, moreVars>>

\* erase_msgs(project_dir)
EraseHistory ==
  /\ Len(stored) > 0
  /\ stored' = <<>>
  /\ msgs' = <<>>
  /\ overwritten' = Len(stored)
  /\ loaded' = NotLoaded
  /\ UNCHANGED <<loopRest, planVars, cacheVars, given, moreVars>>

\* the file comes to hold, at some place, a line that store_msgs did not
\* write (the file is plain text in the home directory)
ForeignLine ==
  /\ \A i \in 1..Len(stored) : IsObject(stored[i])
  /\ \E j \in MalformedKinds, k \in 0..Len(stored) :
       stored' = SubSeq(stored, 1, k) \o <<Malformed(j)>>
                   \o SubSeq(stored, k + 1, Len(stored))
  /\ loaded' = NotLoaded
  /\ UNCHANGED <<msgs, overwritten, loopRest, planVars, cacheVars, given, moreVars>>

NextStore ==
  \/ StoreHistory
  \/ LoadHistory
  \/ StoreLoaded
  \/ EraseHistory
  \/ ForeignLine

SpecStore == Init /\ [][NextStore]_vars

\* ------------------------------------------------- the plan in the reminders
\* The turns of the loop as the plan sees them: a batch runs a plan tool
\* for the project of the loop, the plan expires, the loop assembles the
\* reminders, trims and calls the model.

\* a batch ran make_plan
BatchMakesPlan ==
  /\ \E c \in Contents : plans' = make_plan(plans, c, LoopProject).store
  /\ given' = NotGiven
  /\ trimmed' = NotTrimmed
  /\ UNCHANGED <<op, loopVars, cacheVars, fileVars, watchVars, merged, raceVars>>

\* a batch ran update_step
BatchUpdatesStep ==
  /\ \E si \in {<<>>} \cup {<<i>> : i \in 0..(MaxSteps - 1)}, u \in Updates :
       plans' = update_step(plans, si, u[1], u[2], LoopProject).store
  /\ given' = NotGiven
  /\ trimmed' = NotTrimmed
  /\ UNCHANGED <<op, loopVars, cacheVars, fileVars, watchVars, merged, raceVars>>

\* a batch ran add_step
BatchAddsStep ==
  /\ StepCount(plans, LoopProject) < MaxSteps
  /\ plans' = add_step(plans, AddedStep, LoopProject).store
  /\ given' = NotGiven
  /\ trimmed' = NotTrimmed
  /\ UNCHANGED <<op, loopVars, cacheVars, fileVars, watchVars, merged, raceVars>>

\* more than the TTL has passed since the plan was written: get_plan gives
\* None from now on
PlanExpired ==
  /\ plans[LoopProject] # NoPlan
  /\ plans' = [plans EXCEPT ![LoopProject] = NoPlan]
  /\ given' = NotGiven
  /\ trimmed' = NotTrimmed
  /\ UNCHANGED <<op, loopVars, cacheVars, fileVars, watchVars, merged, raceVars>>

\* a turn of the loop starts: the query was appended to the history, or a
\* batch was folded into it
TurnStarts ==
  /\ \E h \in TurnHistories :
       /\ msgs # h
       /\ msgs' = h
  /\ given' = NotGiven
  /\ trimmed' = NotTrimmed
  /\ UNCHANGED <<stored, loopRest, planVars, cacheVars, fileVars, watchVars, merged, raceVars>>

\* the token counts a call is tried with: every message small, or every
\* message beyond the budget
UniformCounts(n) == {[i \in 1..n |-> c] : c \in TokenCounts}

\* every assignment of token counts to the messages
AllCounts(n) == [1..n -> TokenCounts]

\* variant: the reminder is appended to the history itself
msgs_after_append(history, candidate) == candidate

\* `msgs + [reminder_msg]` is a new list: the history is left as it is
msgs_after_concat(history, candidate) == history

\* the token counts a call is tried with: every assignment, or the uniform ones
CountsOf(each_differs, n) == IF each_differs THEN AllCounts(n) ELSE UniformCounts(n)

\* the top of `while True` up to model_call: the reminders are joined to a
\* copy of the history, the copy is trimmed and handed to the model
CallWithReminders(each_differs) ==
  /\ given.state = "none"
  /\ Len(msgs) > 0
  /\ \E file_changes \in FileChanges :
       LET plan_data == get_plan(plans, LoopProject)
           candidate == with_reminder(msgs, Reminders(file_changes, plan_data))
       IN  /\ \E counts \in CountsOf(each_differs, Len(candidate)) :
                /\ given' = Given("called",
                                  system_prompts(token_cutter(candidate, counts, max_tokens)),
                                  file_changes)
                /\ trimmed' = Trimmed("called", candidate, counts,
                                      token_cutter(candidate, counts, max_tokens),
                                      token_cutter_counts(candidate, counts, max_tokens))
           /\ msgs' = msgs_after_concat(msgs, candidate)
  /\ UNCHANGED <<stored, loopRest, planVars, cacheVars, fileVars, watchVars, merged, raceVars>>

NextReminder ==
  \/ BatchMakesPlan
  \/ BatchUpdatesStep
  \/ BatchAddsStep
  \/ PlanExpired
  \/ TurnStarts
  \/ CallWithReminders(FALSE)

SpecReminder == Init /\ [][NextReminder]_vars

\* ----------------------------------------------------- the trim of a turn
\* The turns of the loop as the budgeter sees them: with or without a plan,
\* with any token counts of the messages; the query ends and the history
\* is stored.

\* `store_msgs(project_dir, msgs)` at the end of the query
TurnStores ==
  /\ Len(msgs) > 0
  /\ stored # store_msgs(msgs)
  /\ stored' = store_msgs(msgs)
  /\ given' = NotGiven
  /\ trimmed' = NotTrimmed
  /\ UNCHANGED <<msgs, loopRest, planVars, cacheVars, fileVars, watchVars, merged, raceVars>>

NextTrim ==
  \/ BatchMakesPlan
  \/ TurnStarts
  \/ CallWithReminders(TRUE)
  \/ TurnStores

SpecTrim == Init /\ [][NextTrim]_vars

\* ----------------------------------------------------- file watcher, alone
\* The observer thread calls the handlers, the loop calls drain; each step
\* is one stretch of a call that no other thread can cut.

watchRest == <<loopVars, planVars, cacheVars, fileVars, given, merged, trimmed, raceVars>>

\* on_modified / on_created / on_deleted up to `with self._lock` in _record:
\* nothing is recorded of a directory or of an ignored path
RecordCalled ==
  /\ recording.state = "idle"
  /\ records < MaxRecords
  /\ \E event \in FsEvents :
       IF event.is_directory \/ should_ignore(event.src_path)
         THEN UNCHANGED recording
         ELSE recording' = Recording("called",
                                     Entry(event.event_type, relpath(event.src_path)))
  /\ records' = records + 1
  /\ UNCHANGED <<changes, lock, draining, drains, cycle, recorded, reported, watchRest>>

\* _record: the lock is taken
RecordLocks ==
  /\ recording.state = "called"
  /\ may_enter(lock)
  /\ lock' = "observer"
  /\ recording' = [recording EXCEPT !.state = "locked"]
  /\ UNCHANGED <<changes, draining, drains, records, cycle, recorded, reported, watchRest>>

\* _record: `if entry not in self.changes: self.changes.append(entry)`, and
\* the lock is released
RecordAppends ==
  /\ recording.state = "locked"
  /\ changes' = IF InChanges(recording.entry, changes) THEN changes
                ELSE Append(changes, recording.entry)
  /\ cycle' = cycle \cup {recording.entry}
  /\ recorded' = IF recording.entry \in cycle THEN recorded
                 ELSE [recorded EXCEPT ![recording.entry] = @ + 1]
  /\ lock' = IF lock = "observer" THEN "" ELSE lock
  /\ recording' = NotRecording
  /\ UNCHANGED <<draining, drains, records, reported, watchRest>>

\* drain: the lock is taken
DrainLocks ==
  /\ draining.state = "idle"
  /\ drains < MaxDrains
  /\ may_enter(lock)
  /\ lock' = "loop"
  /\ draining' = Draining("locked", <<>>)
  /\ UNCHANGED <<changes, recording, drains, records, cycle, recorded, reported, watchRest>>

\* drain: `changes = self.changes.copy()`
DrainCopies ==
  /\ draining.state = "locked"
  /\ draining' = Draining("copied", changes)
  /\ cycle' = {}
  /\ UNCHANGED <<changes, lock, recording, drains, records, recorded, reported, watchRest>>

\* drain: `self.changes.clear()`
DrainClears ==
  /\ draining.state = "copied"
  /\ changes' = <<>>
  /\ draining' = [draining EXCEPT !.state = "cleared"]
  /\ UNCHANGED <<lock, recording, drains, records, cycle, recorded, reported, watchRest>>

\* drain: `return changes`, and the lock is released
DrainReturns ==
  /\ draining.state = "cleared"
  /\ reported' = [e \in Entries |->
                    reported[e] + (IF InChanges(e, draining.copy) THEN 1 ELSE 0)]
  /\ lock' = IF lock = "loop" THEN "" ELSE lock
  /\ draining' = NotDraining
  /\ drains' = drains + 1
  /\ UNCHANGED <<changes, recording, records, cycle, recorded, watchRest>>

NextWatch ==
  \/ RecordCalled
  \/ RecordLocks
  \/ RecordAppends
  \/ DrainLocks
  \/ DrainCopies
  \/ DrainClears
  \/ DrainReturns

SpecWatch == Init /\ [][NextWatch]_vars

\* ------------------------------------------------------ /clear and after
\* Queries that end with an answer, /clear between them, and the records
\* of the project: a plan made by a batch, a tool found by search_tools.

\* the record of the project gains a tool while no query runs: a batch of
\* the query that ended ran search_tools and the loop added what it found
BatchDiscovers ==
  /\ pc \in Stopped
  /\ "web_search" \notin discovered
  /\ discovered' = discovered \cup {"web_search"}
  /\ UNCHANGED <<pc, calls, nextId, stored, msgs, sent, events, cells, batchVars,
                 tools, failure, response, planVars, sideVars>>

NextClear ==
  \/ StartQuery
  \/ CallWithReminders(FALSE)
  \/ CallModel
  \/ ModelFinal
  \/ Finalize
  \/ Erase
  \/ BatchMakesPlan
  \/ BatchDiscovers
  \/ PlanExpired

SpecClear == Init /\ [][NextClear]_vars

\* ------------------------------------------------ state store, one record
\* Two threads of the process call add_discovered_tools for the same
\* project.  The lock is held inside _get and inside _set_with_ttl only, so
\* the read and the write of one call are two steps, and a step of the
\* other thread can fall between them.

raceRest == <<now, ticks, adding, got, last, merged, loopVars, planVars, fileVars, given,
              watchVars, trimmed>>

\* existing = self.get_discovered_tools(project_dir)
ThreadAddRead(t) ==
  /\ racing[t].state = "idle"
  /\ writes + Cardinality({u \in Threads : racing[u].state = "read"}) < MaxWrites
  /\ \E names \in NameLists("discovered_tools") :
       LET r == get_discovered(kv, "discovered_tools", Acting, now)
       IN  /\ kv' = r.store
           /\ racing' = [racing EXCEPT ![t] = Racing("read", names, r.value)]
  /\ UNCHANGED <<writes, added, raceRest>>

\* existing.update(tools); self._set_with_ttl(key, data, 3600)
ThreadAddWrite(t) ==
  /\ racing[t].state = "read"
  /\ kv' = set_with_ttl(kv, make_key("discovered_tools", Acting),
                        update(racing[t].existing, racing[t].names), TTL, now)
  /\ added' = added \cup racing[t].names
  /\ racing' = [racing EXCEPT ![t] = NotRacing]
  /\ writes' = writes + 1
  /\ UNCHANGED raceRest

NextRace ==
  \/ \E t \in Threads : ThreadAddRead(t)
  \/ \E t \in Threads : ThreadAddWrite(t)
  \/ Tick

SpecRace == Init /\ [][NextRace]_vars

\* --------------------------------------------------------------- properties
HasEvent(t) == \E k \in 1..Len(events) : events[k].type = t

BatchIds == {local[i].id : i \in 1..Len(local)}

IsToolUse(b) == b.type = "tool_use"

IsToolResult(b) == b.type = "tool_result"

Ids(bs) == [i \in 1..Len(bs) |-> bs[i].id]

\* the batch of `local` has been folded into the history
Folded == Len(local) > 0 /\ fi > Len(local) /\ pc # "folding"

\* the result message the batch must produce
ExpectedResults ==
  Msg("user", FALSE,
      [i \in 1..Len(local) |-> Block("tool_result", local[i].id, "", Content(returned[i]))])

\* the batch's two messages stand next to each other in history h
FoldedIn(h) ==
  \E k \in 1..(Len(h) - 1) :
     /\ h[k] = AssistantMsg(thinking, local)
     /\ h[k + 1] = ExpectedResults

\* the approval_request events issued for the batch of `local`, in order
IsBatchApproval(e) == e.type = "approval_request" /\ e.req \in BatchIds

BatchApprovals == SelectSeq(events, IsBatchApproval)

IsDangerous(u) == u.name \in DANGEROUS_TOOLS

\* request i of the batch was asked about and its own cell, which no other
\* approval_request carries, is set to approved
IsApprovalRequest(e) == e.type = "approval_request"

ApprovedByOwnCell(i) ==
  LET asked == SelectSeq(events, IsApprovalRequest)
  IN  \E k \in 1..Len(asked) :
         /\ asked[k].req = local[i].id
         /\ cells[asked[k].cell] = "approved"
         /\ \A j \in 1..Len(asked) : j # k => asked[j].cell # asked[k].cell

\* C1: a privileged request is executed only after an approval_request for
\* that very request was emitted and its own decision cell was set to
\* approved; the cell of a request is new and unset when the loop suspends
\* on it, so no earlier approval carries over to it.
C1_PrivilegedNeedsOwnApproval ==
  /\ \A i \in 1..Len(local) :
       (IsDangerous(local[i]) /\ invoked[i] > 0) => ApprovedByOwnCell(i)
  /\ pc = "await_approval" =>
       /\ events[Len(events)].type = "approval_request"
       /\ events[Len(events)].req = local[ai].id
       /\ cells[events[Len(events)].cell] = "unset"

\* two privileged requests, each approved through its own cell, one running
C1_Witness ==
  /\ Len(cells) = 2
  /\ \E i \in 1..Len(local) : IsDangerous(local[i]) /\ invoked[i] = 1

\* C2: once a privileged request of the batch is denied, no request of the
\* batch has been or is ever executed, the in-memory history is the one the
\* model was called with, and that history is what is persisted.
C2_DenialExecutesNothing ==
  (\E k \in 1..Len(BatchApprovals) : cells[BatchApprovals[k].cell] = "denied")
    => /\ \A j \in 1..Len(local) : invoked[j] = 0
       /\ msgs = sent
       /\ pc \in {"cancelled_yield", "cancelled", "idle"}
       /\ pc # "idle" => stored = store_msgs(sent)

\* a batch of two in which the second request is denied after the first,
\* benign or privileged, went through the approval loop
C2_Witness ==
  /\ pc = "cancelled"
  /\ Len(local) = 2
  /\ ai = 2
  /\ cells[Len(cells)] = "denied"

\* C3: on every path by which the generator stops of its own (done,
\* cancelled, or an exception leaving it) the history is stored as it
\* stands.
C3_StoredAtEveryExit ==
  pc \in {"done", "cancelled", "crashed"} => stored = store_msgs(msgs)

\* C4: after an interruption from outside the history of the interrupted
\* turn, user query included, is stored.
C4_StoredAfterInterrupt ==
  pc = "interrupted" => stored = store_msgs(msgs)

\* every tool_use message of h is followed by a user message with the
\* tool_result blocks of the same ids in the same order, and every message
\* with tool_result blocks follows such a tool_use message
Paired(h) ==
  \A k \in 1..Len(h) :
     LET uses == SelectSeq(h[k].blocks, IsToolUse)
         results == SelectSeq(h[k].blocks, IsToolResult)
     IN  /\ Len(uses) > 0 =>
              /\ h[k].role = "assistant"
              /\ k < Len(h)
              /\ h[k + 1].role = "user"
              /\ Ids(SelectSeq(h[k + 1].blocks, IsToolResult)) = Ids(uses)
         /\ Len(results) > 0 =>
              /\ k > 1
              /\ Ids(SelectSeq(h[k - 1].blocks, IsToolUse)) = Ids(results)

\* C5: the history handed to the model call and the history persisted by
\* store_msgs pair every tool_use block with one tool_result block of the
\* same id, in the same order, in the next message.
C5_RequestsPaired ==
  /\ Paired(sent)
  /\ Paired(load_msgs(stored).msgs)
  /\ pc \in {"reminders", "model"} => Paired(msgs)

\* the model is called with a history that holds a folded batch of two
C5_Witness ==
  /\ pc = "model"
  /\ Len(local) = 2
  /\ FoldedIn(sent)

\* C6: every request of a batch is invoked at most once, and once the batch
\* is folded exactly once; the i-th tool_result block carries the id of
\* request i and the content made from what request i returned, and the
\* i-th tool_result event is the one of request i, whatever the order in
\* which the invocations completed.
IsBatchResult(e) == e.type = "tool_result" /\ e.req \in BatchIds

C6_ResultsInRequestOrder ==
  /\ \A i \in 1..Len(local) : invoked[i] <= 1
  /\ Folded =>
       /\ \A i \in 1..Len(local) : invoked[i] = 1
       /\ FoldedIn(msgs)
       /\ SelectSeq(events, IsBatchResult) =
            [i \in 1..Len(local) |->
               Ev("tool_result", local[i].name, local[i].id, 0, Display(returned[i]))]

\* a folded batch of two whose second request completed first, with
\* different results
C6_Witness ==
  /\ Folded
  /\ order = <<2, 1>>
  /\ returned[1] # returned[2]

\* C7: when the handler of a request raises, the request's result is the
\* error string; while the batch runs and is folded no error event is
\* emitted; the folded batch holds the result of every request, and an
\* error event or the end of the query comes only after the folded batch
\* was handed to a further model call.
C7_HandlerErrorIsAResult ==
  raised # {} =>
    /\ \A i \in raised : returned[i] = "Tool error"
    /\ pc \in {"exec", "folding", "reminders"} => ~HasEvent("error")
    /\ Folded => FoldedIn(msgs)
    /\ pc \in {"error_yield", "final_yield", "done"} => FoldedIn(sent)

\* the first handler raised, its sibling returned text, the batch is folded
\* and the model is called again
C7_Witness ==
  /\ raised = {1}
  /\ Len(local) = 2
  /\ returned[2] = "text"
  /\ pc = "model"
  /\ FoldedIn(sent)

\* C8: after the model call failed for good the query ends with exactly one
\* error event, which carries the kind of the transport failure, the
\* history is stored and the last event is done.
IsError(e) == e.type = "error"

C8_ErrorCarriesTransportFailure ==
  (failure # "" /\ pc = "done") =>
    /\ Len(SelectSeq(events, IsError)) = 1
    /\ \A k \in 1..Len(events) : IsError(events[k]) => events[k].out = failure
    /\ events[Len(events)].type = "done"
    /\ stored = store_msgs(msgs)

\* C9: once cancelled is emitted it stays the last event of the stream, the
\* stream has no error event and no tool_result event for a request of the
\* denied batch, and the history was persisted before cancelled was
\* emitted.
C9_CancelledEndsTheStream ==
  HasEvent("cancelled") =>
    /\ events[Len(events)].type = "cancelled"
    /\ ~HasEvent("error")
    /\ Len(SelectSeq(events, IsBatchResult)) = 0
    /\ pc \in {"cancelled_yield", "cancelled"} => stored = store_msgs(msgs)

\* a query cancelled in its second batch, after the results of the first
C9_Witness ==
  /\ pc = "cancelled"
  /\ HasEvent("tool_result")

\* C10: the approval requests of a batch are issued in request order, the
\* next one only after the one before was approved, and no request of the
\* batch starts before the approval loop has passed every request.
DangerousIds == Ids(SelectSeq(local, IsDangerous))

C10_ApprovalsBeforeExecution ==
  LET asked == BatchApprovals
      ids == DangerousIds
  IN  /\ Len(asked) <= Len(ids)
      /\ \A k \in 1..Len(asked) :
           /\ asked[k].req = ids[k]
           /\ k < Len(asked) => cells[asked[k].cell] = "approved"
      /\ (\E j \in 1..Len(local) : invoked[j] > 0) =>
           /\ ai > Len(local)
           /\ Len(asked) = Len(ids)
           /\ \A i \in 1..Len(local) : IsDangerous(local[i]) => ApprovedByOwnCell(i)

\* two privileged requests, both approved, the second one running first
C10_Witness ==
  /\ Len(local) = 2
  /\ IsDangerous(local[1])
  /\ IsDangerous(local[2])
  /\ invoked[1] = 0
  /\ invoked[2] = 1

\* C11: after a response with text and no tool_use block the history is the
\* one the model was called with plus one assistant message holding the
\* text, that history is stored, final_text is emitted once and done right
\* after it, and the model is not called again in the query.
IsFinalText(e) == e.type = "final_text"

C11_FinalAnswerEndsTheQuery ==
  response.kind = "final" =>
    /\ msgs = Append(sent, StrMsg("assistant", "answer"))
    /\ pc \in {"final_yield", "done", "idle"}
    /\ pc # "idle" => stored = store_msgs(msgs)
    /\ Len(SelectSeq(events, IsFinalText)) = 1
    /\ pc = "final_yield" => events[Len(events)].type = "final_text"
    /\ pc = "done" =>
         /\ events[Len(events)].type = "done"
         /\ events[Len(events) - 1].type = "final_text"

\* a final answer given after a folded batch, the query done
C11_Witness ==
  /\ response.kind = "final"
  /\ pc = "done"
  /\ FoldedIn(sent)

\* C12: the model is called again only after a response with tool_use
\* blocks: while a model call is awaited, the response before it in the
\* query, if any, held a tool_use block.
C12_CalledAgainOnlyAfterRequests ==
  pc = "model" => response.kind \in {"none", "tool_use"}

\* the request names a key of the tools dict of the running query
InRegistry(u) == u.name \in tools

\* the tool_use blocks of the last response that name no registered tool
Unregistered ==
  {response.uses[k] : k \in {j \in 1..Len(response.uses) : ~InRegistry(response.uses[j])}}

BlockIdsOf(h) ==
  UNION {{h[k].blocks[j].id : j \in 1..Len(h[k].blocks)} : k \in 1..Len(h)}

\* C13: a tool_use block naming an unregistered tool is not among the local
\* blocks (so never invoked), no event is emitted for it and no block of the
\* in-memory or stored history carries its id; the local blocks are exactly
\* the registered blocks of the response, in order, and are invoked once and
\* folded.
C13_UnregisteredLeftOut ==
  /\ response.kind = "tool_use" => local = SelectSeq(response.uses, InRegistry)
  /\ \A u \in Unregistered :
       /\ \A i \in 1..Len(local) : local[i].id # u.id
       /\ \A k \in 1..Len(events) : events[k].req # u.id
       /\ u.id \notin BlockIdsOf(msgs)
       /\ u.id \notin BlockIdsOf(load_msgs(stored).msgs)
  /\ (Unregistered # {} /\ Folded) =>
       /\ \A i \in 1..Len(local) : invoked[i] = 1
       /\ FoldedIn(msgs)

\* a response with an unregistered and a registered request, the latter
\* folded
C13_Witness ==
  /\ Len(response.uses) = 2
  /\ Len(local) = 1
  /\ Unregistered # {}
  /\ Folded
  /\ pc = "model"

\* C14: a request for an unknown tool is answered with a result naming it,
\* which stands in the history of the next model call.
C14_UnknownToolAnswered ==
  (pc = "model" /\ response.kind = "tool_use") =>
    \A u \in Unregistered :
       \E k \in 1..Len(sent) : \E j \in 1..Len(sent[k].blocks) :
          /\ sent[k].blocks[j].type = "tool_result"
          /\ sent[k].blocks[j].id = u.id
          /\ sent[k].blocks[j].body = "Unknown tool"

\* C15: the names a search_tools result discovered are registered at the
\* next model call of the same query.
C15_DiscoveredAtNextCall ==
  pc = "model" => discovered \subseteq tools

\* C16: every tool that takes the project is called with the project_dir
\* of the loop, injected by execute_tool_call and not given by the response,
\* and its project parameter is no property of its schema.
C16_ProjectInjected ==
  op.phase = "returned" =>
    /\ op.project = LoopProject
    /\ op.path = Missing
    /\ ProjectParam(op.name) \notin SchemaProperties(op.name)

PlanOf(key) == json_loads(plans[key])

\* C17: every stored plan has as many statuses and findings as steps, and
\* its position lies in 0..len(steps).
C17_PlanListsAligned ==
  \A key \in ProjectKeys :
     plans[key] # NoPlan =>
       /\ Len(PlanOf(key).step_statuses) = Len(PlanOf(key).steps)
       /\ Len(PlanOf(key).step_findings) = Len(PlanOf(key).steps)
       /\ PlanOf(key).current_step_index >= 0
       /\ PlanOf(key).current_step_index <= Len(PlanOf(key).steps)

\* a step added to a plan whose position stood at len(steps)
C17_Witness ==
  /\ op.phase = "returned"
  /\ op.name = "add_step"
  /\ op.result = "New step added"
  /\ op.was_index = <<1>>
  /\ Len(PlanOf(op.project).steps) = 2

Updated == op.phase = "returned" /\ op.name = "update_step"
             /\ op.result = "Step updated successfully"

\* the step the update addressed: the one given, else the position
Addressed == IF op.index = <<>> THEN op.was_index[1] ELSE op.index[1]

\* C18: update_step with status completed on the step at the position moves
\* the position on by exactly one, whatever the status of the next step; on
\* any other step it leaves the position as it was.
C18_CompletedAdvancesByOne ==
  (Updated /\ op.status = "completed") =>
    PlanOf(op.project).current_step_index =
      IF Addressed = op.was_index[1] THEN op.was_index[1] + 1 ELSE op.was_index[1]

\* the step at position 0 completed while step 1 already was completed
C18_Witness ==
  /\ Updated
  /\ op.status = "completed"
  /\ op.was_index = <<0>>
  /\ Addressed = 0
  /\ Len(PlanOf(op.project).steps) = 2
  /\ PlanOf(op.project).step_statuses[2] = "completed"
  /\ PlanOf(op.project).current_step_index = 1

\* C19 as stated: a status changes only along not_started -> in_progress ->
\* completed, or to blocked from a status other than completed.
C19_TransitionsConstrained ==
  (Updated /\ op.status # None /\ op.status # op.was_status) =>
    Allowed(op.was_status, op.status)

\* C19, amended: update_step sets the status of the addressed step to the
\* status given, one of the four, whatever the status was before, and
\* leaves it as it was when no status is given.
C19_AnyStatusAssigned ==
  Updated =>
    /\ op.status # None => op.status \in Statuses
    /\ PlanOf(op.project).step_statuses[Addressed + 1] =
         IF op.status # None THEN op.status ELSE op.was_status

\* a completed step set back to not_started
C19_Witness ==
  /\ Updated
  /\ op.was_status = "completed"
  /\ op.status = "not_started"

\* C20: after a successful make_plan the stored plan is the new one: the
\* steps given, all not_started, no findings, position 0.
C20_MakePlanReplaces ==
  (op.phase = "returned" /\ op.name = "make_plan"
     /\ op.result \notin {"Tool error"} /\ Len(op.content.steps) > 0
     /\ op.content.kind = "plan") =>
    /\ plans[op.project] # NoPlan
    /\ PlanOf(op.project).steps = op.content.steps
    /\ \A i \in 1..Len(op.content.steps) :
         /\ PlanOf(op.project).step_statuses[i] = "not_started"
         /\ PlanOf(op.project).step_findings[i] = ""
    /\ Len(PlanOf(op.project).step_statuses) = Len(op.content.steps)
    /\ Len(PlanOf(op.project).step_findings) = Len(op.content.steps)
    /\ PlanOf(op.project).current_step_index = 0

\* a plan of one step replaces a plan whose position was 1 and whose step
\* at that position was completed
C20_Witness ==
  /\ op.phase = "returned"
  /\ op.name = "make_plan"
  /\ op.result = "Structured plan created successfully. Previous plan replaced"
  /\ op.was_status = "completed"
  /\ op.was_index = <<1>>
  /\ Len(op.content.steps) = 1

\* the error texts of the plan tools
ErrorTexts ==
  { "Error: Content cannot be empty", "Error: Invalid JSON format",
    "Error: Plan must have 'title' and 'steps' fields",
    "Error: Steps must be a non-empty list", "Error: No plan exists",
    "Error: Invalid step index", "Error: Invalid status" }

\* a returned plan operation that had to fail: make_plan on content that is
\* no plan, update_step or add_step on a project without plan, update_step
\* on an index outside the steps or with a status that is none of the four
Failing ==
  /\ op.phase = "returned"
  /\ op.path # Missing
  /\ \/ op.name = "make_plan" /\ op.content.kind # "plan"
     \/ op.name \in {"update_step", "add_step"} /\ op.was_index = <<>>
     \/ op.name = "update_step" /\ op.was_index # <<>>
          /\ (Addressed < 0 \/ Addressed >= Len(PlanOf(op.project).steps))
     \/ op.name = "update_step" /\ op.status \notin Statuses \cup {None}

\* C21: every failing plan operation returns an error text as its result
\* instead of raising, and leaves the stored plan of the project unchanged.
C21_FailuresReturnErrorText ==
  [][Failing' => (op'.result \in ErrorTexts /\ plans' = plans)]_vars

\* the plan of the project of the request, before and after the step
PlanBefore == json_loads(plans[op'.project])

PlanAfter == json_loads(plans'[op'.project])

\* the steps other than the addressed one keep status and findings, and
\* the list of steps is as it was
OthersKept ==
  /\ PlanAfter.steps = PlanBefore.steps
  /\ Len(PlanAfter.step_statuses) = Len(PlanBefore.step_statuses)
  /\ Len(PlanAfter.step_findings) = Len(PlanBefore.step_findings)
  /\ \A i \in 1..Len(PlanBefore.steps) :
       i # Addressed' + 1 =>
         /\ PlanAfter.step_statuses[i] = PlanBefore.step_statuses[i]
         /\ PlanAfter.step_findings[i] = PlanBefore.step_findings[i]
  /\ op'.status # "completed" =>
       PlanAfter.current_step_index = PlanBefore.current_step_index

\* C22 as stated: update_step with findings F sets the findings of the
\* addressed step to exactly F, and changes nothing of the other steps.
C22_FindingsSetToGiven ==
  [][(Updated' /\ op'.findings # None) =>
       /\ PlanAfter.step_findings[Addressed' + 1] = op'.findings
       /\ OthersKept]_vars

\* C22, amended: update_step with non-empty findings F sets the findings of
\* the addressed step to exactly F; with empty findings or none it leaves
\* them as they were; the other steps and the list of steps are unchanged.
C22_NonEmptyFindingsReplace ==
  [][Updated' =>
       /\ PlanAfter.step_findings[Addressed' + 1] =
            IF op'.findings \in {None, ""}
              THEN PlanBefore.step_findings[Addressed' + 1]
              ELSE op'.findings
       /\ OthersKept]_vars

\* findings given for a step that had findings, in a plan of two steps
C22_Witness ==
  /\ Updated
  /\ op.findings = "findings"
  /\ op.status = "completed"
  /\ Addressed = 1
  /\ op.was_status = "completed"
  /\ Len(PlanOf(op.project).steps) = 2
  /\ PlanOf(op.project).step_findings = <<"findings", "findings">>

\* execute_tool_call ran a request on a project that held a plan
RanOnPlan ==
  /\ op.phase = "requested"
  /\ op'.phase = "returned"
  /\ op'.project \in ProjectKeys
  /\ plans[op'.project] # NoPlan

\* C23: add_step appends exactly one step at the end, not_started and
\* without findings, and leaves the steps there were, their statuses and
\* findings and the position unchanged; update_step leaves the list of
\* steps as it is; only make_plan removes or reorders a step.
C23_StepsAppendOnly ==
  [][RanOnPlan =>
       /\ op'.name = "add_step" =>
            /\ op'.result = "New step added"
            /\ PlanAfter.steps = Append(PlanBefore.steps, AddedStep)
            /\ PlanAfter.step_statuses = Append(PlanBefore.step_statuses, "not_started")
            /\ PlanAfter.step_findings = Append(PlanBefore.step_findings, "")
            /\ PlanAfter.current_step_index = PlanBefore.current_step_index
       /\ op'.name \notin {"add_step", "make_plan"} =>
            /\ plans'[op'.project] # NoPlan
            /\ PlanAfter.steps = PlanBefore.steps]_vars

\* a step added behind a step in progress that has findings
C23_Witness ==
  /\ op.phase = "returned"
  /\ op.name = "add_step"
  /\ op.result = "New step added"
  /\ op.was_index = <<0>>
  /\ PlanOf(op.project).steps = <<Descriptions[1], AddedStep>>
  /\ PlanOf(op.project).step_statuses = <<"in_progress", "not_started">>
  /\ PlanOf(op.project).step_findings = <<"findings", "">>

\* what a read of the record must return: the last written value while
\* the time is within TTL of that write, nothing after it
Kept(key) == key \in DOMAIN last /\ now <= last[key].at + TTL

\* C24: a plan or discovered record is absent to every read made more than
\* TTL after its last write, cleaned up or not, and is returned with its
\* last written value by every read within the TTL; a write restarts the
\* TTL, a read does not extend it.
C24_ReadWithinTTL ==
  got.type # "" =>
    LET key == make_key(got.type, got.project)
    IN  IF got.type = "plan"
          THEN got.value = IF Kept(key) THEN <<last[key].value>> ELSE <<>>
          ELSE got.value = IF Kept(key) THEN last[key].value ELSE {}

\* a plan written twice is read after more than TTL since the first write
\* and within TTL of the second
C24_Witness ==
  /\ got.type = "plan"
  /\ got.project = Acting
  /\ got.value # <<>>
  /\ now > TTL
  /\ writes = 2
  /\ \A k \in DOMAIN kv : k = make_key("plan", Acting)

\* what a session of project p would read of record ty at this moment
Visible(p, ty) == get(kv, make_key(ty, p), now).value

\* C25: whatever the session of another project did on the store, in any
\* interleaving with the reads, the cleanup and the clock, a project reads
\* its plan and its discovered sets as it wrote them (until they expire).
C25_ProjectsIsolated ==
  \A ty \in KeyTypes :
     Visible(Reading, ty) = IF now <= TTL THEN <<Held(ty)>> ELSE <<>>

\* the plan of one project is read, unchanged, after the other project's
\* plan was written and the time moved
C25_Witness ==
  /\ got = ReadOf("plan", Reading, <<"plan 2">>)
  /\ now > 0
  /\ make_key("plan", Acting) \in DOMAIN kv
  /\ kv[make_key("plan", Acting)].value = "plan 1"
  /\ make_key("plan", Acting) \in DOMAIN kv
  /\ kv[make_key("plan", Acting)].value = "plan 1"

\* the file holds the lines the last store_msgs wrote and was loaded
LoadedBack ==
  /\ loaded.state # "none"
  /\ \A i \in 1..Len(stored) : IsObject(stored[i])

\* a message without its thinking blocks, a single remaining text block
\* taken as plain text
Stripped(m) ==
  IF m.plain THEN m
  ELSE LET kept == SelectSeq(m.blocks, IsNotThinking)
       IN  Msg(m.role, Len(kept) = 1 /\ kept[1].type = "text", kept)

\* C26: load_msgs after store_msgs(H) returns H with thinking blocks
\* removed and single text blocks unwrapped, in order; storing and loading
\* the result again returns the same history.
C26_RoundTrip ==
  LoadedBack =>
    /\ loaded.state = "ok"
    /\ Len(loaded.msgs) = Len(msgs)
    /\ \A i \in 1..Len(msgs) : loaded.msgs[i] = Stripped(msgs[i])
    /\ load_msgs(store_msgs(loaded.msgs)) = loaded

\* a history with a thinking block and a text block in one message, and a
\* tool_use message, loaded back
C26_Witness ==
  /\ LoadedBack
  /\ Len(msgs) = 2
  /\ ~msgs[1].plain /\ Len(msgs[1].blocks) = 2
  /\ loaded.msgs[1].plain
  /\ ~msgs[2].plain /\ Len(msgs[2].blocks) = 3
  /\ Len(loaded.msgs[2].blocks) = 2

\* C27: after any sequence of store_msgs calls load_msgs returns exactly
\* the normalised messages of the last stored history; no message of an
\* earlier stored history remains, also when the last history is shorter.
C27_LastStoreWins ==
  LoadedBack =>
    loaded.msgs = [i \in 1..Len(msgs) |-> reconstruct_message(normalize_message(msgs[i]))]

\* a history of one message stored over a file of two lines, loaded
C27_Witness ==
  /\ LoadedBack
  /\ overwritten = 2
  /\ Len(msgs) = 1
  /\ Len(loaded.msgs) = 1

WellFormed == SelectSeq(stored, IsObject)

\* C28: load_msgs never fails on a malformed line: every line that is no
\* stored message is skipped and the well-formed messages are returned in
\* file order.
C28_MalformedLinesSkipped ==
  loaded.state # "none" =>
    /\ loaded.state = "ok"
    /\ loaded.msgs = [i \in 1..Len(WellFormed) |-> reconstruct_message(WellFormed[i].obj)]

IsSystem(m) == m.role = "system"

\* h, if not empty, starts with its only system message
OneSystemFirst(h) ==
  Len(h) > 0 => (IsSystem(h[1]) /\ Len(SelectSeq(h, IsSystem)) = 1)

\* C29: a query loads the stored history, synthesizes the system message
\* only when that history is empty and appends one user message with the
\* query: over any queries without erase the history has exactly one
\* system message, at position 0, and the stored messages are kept in
\* order, the new user message right behind them.
C29_OneSystemMessage ==
  LET old == load_msgs(stored).msgs
      new == load_msgs(store_msgs(msgs)).msgs
  IN  /\ OneSystemFirst(msgs)
      /\ OneSystemFirst(old)
      /\ Len(old) <= Len(new)
      /\ SubSeq(new, 1, Len(old)) = old
      /\ (Len(old) > 0 /\ Len(old) < Len(new)) => new[Len(old) + 1] = UserQuery
      /\ (Len(old) = 0 /\ Len(new) > 0) => SubSeq(new, 1, 2) = <<SystemPrompt, UserQuery>>

\* a second query has started on the stored history of the first
C29_Witness ==
  /\ pc = "reminders"
  /\ Len(stored) >= 3
  /\ Len(msgs) = Len(stored) + 1
  /\ msgs[Len(msgs)] = UserQuery

\* the reminder text a model call must carry for the plan and the file
\* changes of its turn
Reminder(parts) == "<system-reminder>\n" \o Joined(parts) \o "\n</system-reminder>"

FileChangesPart ==
  IF given.changes = "" THEN <<>>
  ELSE <<"Files changed since last turn:\n" \o given.changes>>

PlanPart ==
  <<get_contextual_plan_reminder(PlanOf(LoopProject))
      \o "\n\nUse 'update_step' after each research/work session.">>

InSystem(text) == \E i \in 1..Len(given.system) : given.system[i] = text

\* C30: every model call made while a plan exists for the project carries
\* the plan reminder built from the plan as it is stored at that moment,
\* and a call made while no plan exists carries no plan reminder.
C30_PlanReminderGiven ==
  given.state = "called" =>
    IF plans[LoopProject] # NoPlan
      THEN InSystem(Reminder(FileChangesPart \o PlanPart))
      ELSE \A i \in 1..Len(given.system) :
             given.system[i] \in {SystemPrompt.blocks[1].body, Reminder(FileChangesPart)}

\* the model is called after a batch completed step 1 of two with findings
C30_Witness ==
  /\ given.state = "called"
  /\ plans[LoopProject] # NoPlan
  /\ PlanOf(LoopProject).current_step_index = 1
  /\ Len(PlanOf(LoopProject).steps) = 2
  /\ PlanOf(LoopProject).step_findings[1] = "findings"
  /\ given.changes # ""
  /\ Len(given.system) = 2

\* no entry twice in a buffer
NoRepeat(buf) == \A i, j \in 1..Len(buf) : buf[i] = buf[j] => i = j

\* the entry is held for a drain to come: in the buffer, or in the copy of
\* the drain that is running
Held31(e) == InChanges(e, changes) \/ InChanges(e, draining.copy)

\* C31: every entry recorded in a drain cycle is returned by exactly one
\* drain: at any moment the drains that returned an entry, plus one if it
\* is held for the next drain, are as many as the cycles in which it was
\* recorded; and no buffer and no drained list holds an entry twice.
C31_DrainedExactlyOnce ==
  /\ \A e \in Entries :
       reported[e] + (IF Held31(e) THEN 1 ELSE 0) = recorded[e]
  /\ NoRepeat(changes)
  /\ NoRepeat(draining.copy)

\* an entry that one drain returned was recorded again in the next cycle
\* and is held, with another entry, in the copy of the second drain
C31_Witness ==
  /\ drains = 1
  /\ draining.state = "cleared"
  /\ Len(draining.copy) = 2
  /\ \E e \in Entries : reported[e] = 1 /\ recorded[e] = 2 /\ InChanges(e, draining.copy)

\* the set a read of the record gives right after the last add returned
ReadAfterMerge == get_discovered(kv, merged.type, Acting, now).value

\* C32: an add_discovered_* call leaves the project's set equal to the
\* names it held joined with the names given, so a call given only names
\* already held leaves the set as it was, and a list added a second time
\* changes nothing.
C32_MergeIdempotent ==
  merged.state = "done" =>
    /\ ReadAfterMerge = merged.existing \cup merged.names
    /\ merged.names \subseteq merged.existing => ReadAfterMerge = merged.existing

\* the session added a second time the list it had added before
C32_Witness ==
  /\ merged.state = "done"
  /\ merged.type = "discovered_tools"
  /\ merged.names = {"web_search"}
  /\ merged.existing = {"web_search"}
  /\ ReadAfterMerge = {"web_search"}

\* every request of h has its results in the next message, and every
\* result of h answers a request of the message before
Whole(h) ==
  /\ Paired(h)
  /\ \A k \in 1..Len(h) :
       HasType(h[k], "tool_result") => (k > 1 /\ HasType(h[k - 1], "tool_use"))

\* the system messages of the candidate take no more than the budget
SystemFits ==
  SumSeq([i \in 1..Len(trimmed.candidate) |->
            IF IsSystem(trimmed.candidate[i]) THEN trimmed.counts[i] ELSE 0]) <= max_tokens

\* what the model call is given fits the budget, holds every system
\* message of the candidate and no half of a request/result unit
TrimmedWell ==
  /\ SumSeq(trimmed.out_counts) <= max_tokens
  /\ SelectSeq(trimmed.out, IsSystem) = SelectSeq(trimmed.candidate, IsSystem)
  /\ Whole(trimmed.out)

NotCompleted(status) == status # "completed"

\* the reminder text for a plan whose current step is `focus`, with `left`
\* steps remaining and `next` the step named as next (<<>> if none)
FocusText(plan, focus, left, next) ==
  "FOCUS ON STEP " \o ToString(focus) \o ": " \o plan.steps[focus] \o "\n"
    \o "Status: " \o Upper(plan.step_statuses[focus]) \o " | "
    \o ToString(left) \o " steps remaining\n\n"
    \o (IF plan.step_findings[focus] # ""
          THEN "Previous findings for this step: " \o plan.step_findings[focus] \o "\n\n"
          ELSE "")
    \o (IF next # <<>> THEN "Next step: " \o next[1] \o "\n\n" ELSE "")
    \o "Remember to use 'update_step'"
    \o "\n\nUse 'update_step' after each research/work session."

\* the text is the content of a system message of the candidate the loop
\* built for the last model call
Candidate(text) ==
  \E i \in 1..Len(trimmed.candidate) : trimmed.candidate[i] = StrMsg("system", text)

\* a model call was made for a plan that has a current step
FocusShown ==
  /\ given.state = "called"
  /\ plans[LoopProject] # NoPlan
  /\ PlanOf(LoopProject).current_step_index < Len(PlanOf(LoopProject).steps)

\* C34: for a plan with current_step_index < len(steps) the reminder names
\* the step at current_step_index as the focus, counts as remaining the
\* steps from the current one on that are not completed, and names the
\* step after the current one as next when there is one.
C34_ReminderFocus ==
  FocusShown =>
    LET plan == PlanOf(LoopProject)
        c == plan.current_step_index
        n == Len(plan.steps)
        left == Len(SelectSeq(SubSeq(plan.step_statuses, c + 1, n), NotCompleted))
        next == IF c + 2 <= n THEN <<plan.steps[c + 2]>> ELSE <<>>
    IN  Candidate(Reminder(FileChangesPart \o <<FocusText(plan, c + 1, left, next)>>))

\* a plan of two steps whose step 0 was completed and then set back to
\* in_progress: the focus is the second step, one step remains
C34_Witness ==
  /\ FocusShown
  /\ Len(PlanOf(LoopProject).steps) = 2
  /\ PlanOf(LoopProject).current_step_index = 1
  /\ PlanOf(LoopProject).step_statuses[1] = "in_progress"
  /\ PlanOf(LoopProject).step_statuses[2] = "not_started"

\* the generator was resumed after an approval_request of the batch whose
\* cell the consumer had left unset, and the query was not erased since
ResumedUnanswered ==
  /\ \E k \in 1..Len(BatchApprovals) : cells[BatchApprovals[k].cell] = "unset"
  /\ pc \notin {"await_approval", "interrupted", "idle"}

\* C35: a generator resumed after an approval_request whose cell is still
\* unset takes the request as denied: no request of the batch is executed,
\* the history is stored as the model was called with it, and cancelled is
\* the last event.
C35_UnansweredIsDenied ==
  ResumedUnanswered =>
    /\ \A j \in 1..Len(local) : invoked[j] = 0
    /\ msgs = sent
    /\ pc \in {"cancelled_yield", "cancelled"}
    /\ stored = store_msgs(msgs)
    /\ events[Len(events)].type = "cancelled"

\* the second privileged request of a batch was left unanswered after the
\* first was approved
C35_Witness ==
  /\ pc = "cancelled"
  /\ Len(cells) = 2
  /\ cells[1] = "approved"
  /\ cells[2] = "unset"

\* C36: between two consecutive model calls of one query the history
\* grows: a call that is not the first of its query is made with a
\* history longer than the one of the call before.
C36_HistoryGrowsBetweenCalls ==
  [][(pc = "reminders" /\ pc' = "model" /\ response.kind # "none")
       => (Len(msgs) > Len(sent) /\ msgs # sent)]_vars

\* C37: in every stored plan the position equals the number of steps only
\* if every step is completed, and every step before the position is
\* completed.
C37_PositionPastCompletedOnly ==
  plans[LoopProject] # NoPlan =>
    LET plan == PlanOf(LoopProject)
        c == plan.current_step_index
    IN  /\ c = Len(plan.steps) =>
             \A i \in 1..Len(plan.steps) : plan.step_statuses[i] = "completed"
        /\ \A i \in 1..Len(plan.steps) :
             i <= c => plan.step_statuses[i] = "completed"

\* a reminder message: a system message other than the system prompt
IsReminder(m0) == m0.role = "system" /\ m0 # SystemPrompt

NoReminderIn(h) == \A i \in 1..Len(h) : ~IsReminder(h[i])

\* C38: the reminder message is in the input of one model call only: the
\* history in memory holds none, at the call, after it and when it is
\* stored, and no stored transcript holds one.
C38_ReminderOnlyInTheCopy ==
  /\ NoReminderIn(msgs)
  /\ NoReminderIn(load_msgs(stored).msgs)
  /\ trimmed.state = "called" =>
       msgs = SubSeq(trimmed.candidate, 1, Len(msgs))

\* a call was made with a reminder of the plan and the file changes in its
\* input, after the history of an earlier turn with a plan was stored
C38_Witness ==
  /\ trimmed.state = "called"
  /\ Len(trimmed.candidate) = Len(msgs) + 1
  /\ IsReminder(trimmed.candidate[Len(trimmed.candidate)])
  /\ given.changes # ""
  /\ plans[LoopProject] # NoPlan
  /\ Len(stored) = 2
  /\ Len(msgs) = 4

\* a step that removes the stored transcript
Erased == Len(stored) > 0 /\ stored' = <<>>

\* the first turn of a query that found no transcript
FirstTurnOfFresh == pc = "reminders" /\ response.kind = "none" /\ stored = <<>>

\* C39: /clear removes the transcript and nothing else: the plan and the
\* discovered tools of the project are as before; the query after it
\* starts from the system message and the query alone, has the
\* discovered tools registered, and its model call is given the reminder
\* of the plan that is stored.
C39_ClearKeepsRecords ==
  /\ [][Erased => (plans' = plans /\ discovered' = discovered /\ kv' = kv)]_vars
  /\ [](FirstTurnOfFresh =>
          /\ msgs = <<SystemPrompt, UserQuery>>
          /\ tools = default_tools \cup discovered)
  /\ []((FirstTurnOfFresh /\ given.state = "called" /\ plans[LoopProject] # NoPlan)
          => InSystem(Reminder(FileChangesPart \o PlanPart)))

\* a query was answered and stored with a plan and a discovered tool on
\* record, the transcript was erased, and the model call of the next
\* query is given the plan reminder
C39_Witness ==
  /\ FirstTurnOfFresh
  /\ calls = 1
  /\ given.state = "called"
  /\ plans[LoopProject] # NoPlan
  /\ Len(given.system) = 2
  /\ "web_search" \in tools

\* C40: two add_discovered_tools calls on one project that run side by
\* side lose no update: while no record can have expired, every name given
\* to a call that has returned is in the discovered set of the project.
C40_NoLostUpdate ==
  now <= TTL =>
    added \subseteq get_discovered(kv, "discovered_tools", Acting, now).value

====
